---- MODULE Spec2Model ----
(***************************************************************************)
(* Sanity-test log aggregation (aggregate_results.py, strip_ansi.py).      *)
(*                                                                         *)
(* Text is modelled character by character: a Python str is a sequence of  *)
(* one-character strings ("ESC" and "BEL" stand for \x1b and \x07).  Every *)
(* regular expression of the source is an operator over such sequences     *)
(* that computes what re.sub / re.search / re.match compute.               *)
(***************************************************************************)
EXTENDS Integers, Sequences, FiniteSets, TLC

(***************************************************************************)
(* Characters and character classes                                        *)
(***************************************************************************)
ESC == "ESC"
BEL == "BEL"
BSL == "\\"
NL == "\n"

Digits == {"0", "1", "2", "3", "4", "5", "6", "7", "8", "9"}

Lower == {"a", "b", "c", "d", "e", "f", "g", "h", "i", "j", "k", "l", "m",
          "n", "o", "p", "q", "r", "s", "t", "u", "v", "w", "x", "y", "z"}

Upper == {"A", "B", "C", "D", "E", "F", "G", "H", "I", "J", "K", "L", "M",
          "N", "O", "P", "Q", "R", "S", "T", "U", "V", "W", "X", "Y", "Z"}

Letters == Lower \cup Upper

DigitsSemi == Digits \cup {";"}

Whitespace == {" ", "\t", "\r", NL}

DigitVal == [c \in Digits |->
               CASE c = "0" -> 0 [] c = "1" -> 1 [] c = "2" -> 2 [] c = "3" -> 3
                 [] c = "4" -> 4 [] c = "5" -> 5 [] c = "6" -> 6 [] c = "7" -> 7
                 [] c = "8" -> 8 [] c = "9" -> 9]

(***************************************************************************)
(* str primitives                                                          *)
(***************************************************************************)
\* s[i:] starts with p (i is 1-based)
StartsWithAt(s, i, p) ==
    /\ i >= 1
    /\ i + Len(p) - 1 <= Len(s)
    /\ \A k \in 1..Len(p) : s[i + k - 1] = p[k]

startswith(s, p) == StartsWithAt(s, 1, p)

endswith(s, p) == Len(p) <= Len(s) /\ StartsWithAt(s, Len(s) - Len(p) + 1, p)

\* p in s
contains(s, p) == \E i \in 1..(Len(s) - Len(p) + 1) : StartsWithAt(s, i, p)

\* index of the first character at or after i that is not in class C
\* (Len(s) + 1 when the run reaches the end of s): the end of a greedy C*
RunEnd(s, i, C) ==
    CHOOSE j \in i..(Len(s) + 1) :
        /\ \A k \in i..(j - 1) : s[k] \in C
        /\ (j = Len(s) + 1 \/ s[j] \notin C)

\* index of the first occurrence of character c at or after i, 0 if none
FindChar(s, i, c) ==
    LET hits == {j \in i..Len(s) : s[j] = c}
    IN  IF hits = {} THEN 0 ELSE CHOOSE j \in hits : \A k \in hits : j <= k

\* str.rfind(c) + 1: 1-based index of the last occurrence of c, 0 if none
rfind(s, c) ==
    LET hits == {j \in 1..Len(s) : s[j] = c}
    IN  IF hits = {} THEN 0 ELSE CHOOSE j \in hits : \A k \in hits : j >= k

\* str.strip()
strip(s) ==
    LET keep == {j \in 1..Len(s) : s[j] \notin Whitespace}
    IN  IF keep = {} THEN <<>>
        ELSE SubSeq(s, CHOOSE j \in keep : \A k \in keep : j <= k,
                       CHOOSE j \in keep : \A k \in keep : j >= k)

\* re.sub(pattern, "", s) where lens[i] is the length of the pattern's match
\* starting at i (0: no match there); matches are taken left to right and
\* do not overlap
RECURSIVE RemoveMatches(_, _, _)
RemoveMatches(s, lens, i) ==
    IF i > Len(s) THEN <<>>
    ELSE IF lens[i] > 0 THEN RemoveMatches(s, lens, i + lens[i])
    ELSE <<s[i]>> \o RemoveMatches(s, lens, i + 1)

(***************************************************************************)
(* The ANSI patterns                                                       *)
(***************************************************************************)
\* \x1b\[[0-9;]*[a-zA-Z]   (also written \033\[...)
CsiLen(s, i) ==
    IF StartsWithAt(s, i, <<ESC, "[">>)
    THEN LET j == RunEnd(s, i + 2, DigitsSemi)
         IN  IF j <= Len(s) /\ s[j] \in Letters THEN j - i + 1 ELSE 0
    ELSE 0

\* \[[\d;]*m
BracketMLen(s, i) ==
    IF s[i] = "["
    THEN LET j == RunEnd(s, i + 1, DigitsSemi)
         IN  IF j <= Len(s) /\ s[j] = "m" THEN j - i + 1 ELSE 0
    ELSE 0

\* \[[\d;]*[a-zA-Z]
BracketLetterLen(s, i) ==
    IF s[i] = "["
    THEN LET j == RunEnd(s, i + 1, DigitsSemi)
         IN  IF j <= Len(s) /\ s[j] \in Letters THEN j - i + 1 ELSE 0
    ELSE 0

\* \x1b\][^\x07]*\x07
OscBelLen(s, i) ==
    IF StartsWithAt(s, i, <<ESC, "]">>)
    THEN LET j == FindChar(s, i + 2, BEL)
         IN  IF j > 0 THEN j - i + 1 ELSE 0
    ELSE 0

\* \x1b\][^\x1b]*\x1b\\
OscStLen(s, i) ==
    IF StartsWithAt(s, i, <<ESC, "]">>)
    THEN LET j == FindChar(s, i + 2, ESC)
         IN  IF j > 0 /\ j + 1 <= Len(s) /\ s[j + 1] = BSL THEN j - i + 2 ELSE 0
    ELSE 0

\* \x1b[^\[]
EscOtherLen(s, i) ==
    IF s[i] = ESC /\ i + 1 <= Len(s) /\ s[i + 1] # "[" THEN 2 ELSE 0

ReSubCsi(s) == RemoveMatches(s, [i \in 1..Len(s) |-> CsiLen(s, i)], 1)
ReSubBracketM(s) == RemoveMatches(s, [i \in 1..Len(s) |-> BracketMLen(s, i)], 1)
ReSubBracketLetter(s) == RemoveMatches(s, [i \in 1..Len(s) |-> BracketLetterLen(s, i)], 1)
ReSubOscBel(s) == RemoveMatches(s, [i \in 1..Len(s) |-> OscBelLen(s, i)], 1)
ReSubOscSt(s) == RemoveMatches(s, [i \in 1..Len(s) |-> OscStLen(s, i)], 1)
ReSubEscOther(s) == RemoveMatches(s, [i \in 1..Len(s) |-> EscOtherLen(s, i)], 1)

\* aggregate_results.py: the four patterns applied one after the other
strip_ansi_codes(text) ==
    ReSubBracketLetter(ReSubBracketM(ReSubCsi(ReSubCsi(text))))

\* strip_ansi.py: the five substitutions applied one after the other
standalone_strip_ansi_codes(text) ==
    ReSubEscOther(ReSubOscSt(ReSubOscBel(ReSubCsi(ReSubCsi(text)))))

(***************************************************************************)
(* String literals of parse_pytest_log                                     *)
(***************************************************************************)
S_SUITE_APPS == <<"s", "u", "i", "t", "e", "/", "a", "p", "p", "s", "/">>
S_COLONS == <<":", ":">>
S_PASSED == <<"P", "A", "S", "S", "E", "D">>
S_FAILED == <<"F", "A", "I", "L", "E", "D">>
S_ERROR == <<"E", "R", "R", "O", "R">>
S_EQ2 == <<"=", "=">>
S_EQ3 == <<"=", "=", "=">>
S_failed == <<"f", "a", "i", "l", "e", "d">>
S_passed == <<"p", "a", "s", "s", "e", "d">>
S_SP_passed == <<" ", "p", "a", "s", "s", "e", "d">>
S_SP_failed == <<" ", "f", "a", "i", "l", "e", "d">>
S_SP_error == <<" ", "e", "r", "r", "o", "r">>
S_IN_SP == <<"i", "n", " ">>
S_SHORT_SUMMARY ==
    <<"s", "h", "o", "r", "t", " ", "t", "e", "s", "t", " ", "s", "u", "m", "m", "a", "r", "y",
      " ", "i", "n", "f", "o">>
S_FAILED_SP == <<"F", "A", "I", "L", "E", "D", " ">>
S_ERROR_SP == <<"E", "R", "R", "O", "R", " ">>
S_NA == <<"N", "/", "A">>
S_COLON_SP == <<":", " ">>
S_FAILED_TO_PARSE ==
    <<"F", "a", "i", "l", "e", "d", " ", "t", "o", " ", "p", "a", "r", "s", "e", " ", "l", "o",
      "g", ":", " ">>

\* the four values of the "status" field (the source prefixes each with an emoji)
STATUS_FAIL == "FAIL"
STATUS_PASS == "PASS"
STATUS_NO_LOG == "NO LOG"
STATUS_ERROR == "ERROR"

\* current_test = None; a test name is never the empty string
None == <<>>

ResultWords == <<S_PASSED, S_FAILED, S_ERROR>>

(***************************************************************************)
(* The regular expressions of the per-line parsing                         *)
(***************************************************************************)
\* \[\s*\d+%\] matches at j
PctTailAt(s, j) ==
    /\ j >= 1 /\ j <= Len(s) /\ s[j] = "["
    /\ LET k == RunEnd(s, j + 1, Whitespace)
           l == RunEnd(s, k, Digits)
       IN  /\ l > k
           /\ l + 1 <= Len(s)
           /\ s[l] = "%"
           /\ s[l + 1] = "]"

\* re.match(r"^(suite/apps/[^\[]*\[[^\]]+\])", line).group(1), None if no match
TestNameMatch(line) ==
    IF ~startswith(line, S_SUITE_APPS) THEN None
    ELSE LET lb == FindChar(line, Len(S_SUITE_APPS) + 1, "[")
             rb == IF lb = 0 THEN 0 ELSE FindChar(line, lb + 1, "]")
         IN  IF lb > 0 /\ rb > lb + 1 THEN SubSeq(line, 1, rb) ELSE None

\* (PASSED|FAILED|ERROR)\s+\[\s*\d+%\] matches at i with the word w
PlainResultAt(s, i, w) ==
    /\ StartsWithAt(s, i, w)
    /\ LET j == RunEnd(s, i + Len(w), Whitespace)
       IN  j > i + Len(w) /\ PctTailAt(s, j)

\* \[[\d;]*m(PASSED|FAILED|ERROR)\[[\d;]*m.*\[\s*\d+%\] matches at i with w
AnsiResultAt(s, i, w) ==
    /\ i <= Len(s) /\ s[i] = "["
    /\ LET a == RunEnd(s, i + 1, DigitsSemi)
       IN  /\ a <= Len(s) /\ s[a] = "m"
           /\ StartsWithAt(s, a + 1, w)
           /\ LET b == a + 1 + Len(w)
              IN  /\ b <= Len(s) /\ s[b] = "["
                  /\ LET c == RunEnd(s, b + 1, DigitsSemi)
                     IN  /\ c <= Len(s) /\ s[c] = "m"
                         /\ \E j \in (c + 1)..Len(s) : PctTailAt(s, j)

\* group(1) of re.search(result_patterns[0], line): the word of the leftmost
\* position where the pattern matches, None if it matches nowhere
PlainResult(line) ==
    LET hits == {i \in 1..Len(line) : \E n \in 1..3 : PlainResultAt(line, i, ResultWords[n])}
    IN  IF hits = {} THEN None
        ELSE LET i == CHOOSE h \in hits : \A k \in hits : h <= k
             IN  ResultWords[CHOOSE n \in 1..3 : PlainResultAt(line, i, ResultWords[n])]

\* group(1) of re.search(result_patterns[1], line)
AnsiResult(line) ==
    LET hits == {i \in 1..Len(line) : \E n \in 1..3 : AnsiResultAt(line, i, ResultWords[n])}
    IN  IF hits = {} THEN None
        ELSE LET i == CHOOSE h \in hits : \A k \in hits : h <= k
             IN  ResultWords[CHOOSE n \in 1..3 : AnsiResultAt(line, i, ResultWords[n])]

\* lines 181-191: the first of the two result patterns that matches decides
ResultFound(line) ==
    IF PlainResult(line) # None THEN PlainResult(line) ELSE AnsiResult(line)

\* lines 134-139: PASSED wins over FAILED wins over ERROR
SameLineWord(line) ==
    IF contains(line, S_PASSED) THEN S_PASSED
    ELSE IF contains(line, S_FAILED) THEN S_FAILED
    ELSE IF contains(line, S_ERROR) THEN S_ERROR
    ELSE None

\* lines 142-150: a test name on its own line
NameOnlyTest(line) ==
    IF endswith(line, <<"]">>) THEN line
    ELSE LET pos == rfind(line, "]")
         IN  IF pos - 1 > 0 THEN SubSeq(line, 1, pos) ELSE line

\* the counters after one more result of the given word
Count(st, w) ==
    [st EXCEPT !.passed = IF w = S_PASSED THEN @ + 1 ELSE @,
               !.failed = IF w = S_FAILED THEN @ + 1 ELSE @,
               !.errors = IF w = S_ERROR THEN @ + 1 ELSE @,
               !.debug_results_found = @ + 1]

RecordUncounted(st, test, w) ==
    [st EXCEPT !.individual_results = Append(@, <<test, w>>),
               !.current_test = None,
               !.debug_results_found = @ + 1]

RecordKeepsPending(st, test, w) ==
    [Count(st, w) EXCEPT !.individual_results = Append(@, <<test, w>>)]

\* a result attributed to the pending test: recorded, counted, pending reset
Record(st, test, w) ==
    [Count(st, w) EXCEPT !.individual_results = Append(@, <<test, w>>),
                         !.current_test = None]

\* lines 112-230: one iteration of the loop over the lines
LineStep(st, raw_line) ==
    LET line == strip(raw_line)
    IN  IF line = <<>> THEN st
        ELSE IF startswith(line, S_SUITE_APPS) /\ contains(line, S_COLONS)
        THEN IF SameLineWord(line) # None
             THEN LET m == TestNameMatch(line)
                  IN  IF m # None THEN Record(st, m, SameLineWord(line)) ELSE st
             ELSE [st EXCEPT !.current_test = NameOnlyTest(line)]
        ELSE LET result_found == ResultFound(line)
             IN  IF result_found = None THEN st
                 ELSE IF st.current_test # None
                 THEN Record(st, st.current_test, result_found)
                 ELSE Count(st, result_found)

\* lines 98-110: the loop's variables before the first line
LoopInit ==
    [current_test |-> None, passed |-> 0, failed |-> 0, errors |-> 0,
     individual_results |-> <<>>, debug_results_found |-> 0]

RECURSIVE ParseLines(_, _, _)
ParseLines(lines, i, st) ==
    IF i > Len(lines) THEN st ELSE ParseLines(lines, i + 1, LineStep(st, lines[i]))

(***************************************************************************)
(* The summary line (lines 241-275)                                        *)
(***************************************************************************)
\* int(digits)
RECURSIVE ToInt(_)
ToInt(ds) ==
    IF ds = <<>> THEN 0
    ELSE 10 * ToInt(SubSeq(ds, 1, Len(ds) - 1)) + DigitVal[ds[Len(ds)]]

\* int(re.search(r"(\d+)" + word, line).group(1)), -1 if there is no match:
\* the leftmost run of digits that is followed by the word
CountBefore(line, word) ==
    LET hits == {i \in 1..Len(line) :
                    /\ line[i] \in Digits
                    /\ StartsWithAt(line, RunEnd(line, i, Digits), word)}
    IN  IF hits = {} THEN -1
        ELSE LET i == CHOOSE h \in hits : \A k \in hits : h <= k
             IN  ToInt(SubSeq(line, i, RunEnd(line, i, Digits) - 1))

TimeChars == Digits \cup {":", "."}

\* re.search(r"in ([\d:.]+)s", line): group(1) + "s", None if there is no match
TimeMatch(line) ==
    LET hits == {i \in 1..Len(line) :
                    /\ StartsWithAt(line, i, S_IN_SP)
                    /\ LET j == RunEnd(line, i + 3, TimeChars)
                       IN  j > i + 3 /\ j <= Len(line) /\ line[j] = "s"}
    IN  IF hits = {} THEN None
        ELSE LET i == CHOOSE h \in hits : \A k \in hits : h <= k
             IN  SubSeq(line, i + 3, RunEnd(line, i + 3, TimeChars))

\* lines 248-252: the test that makes a line the summary line
IsSummaryLine(line) ==
    /\ startswith(strip(line), S_EQ2)
    /\ endswith(strip(line), S_EQ3)
    /\ (contains(line, S_failed) \/ contains(line, S_passed))

\* index of the first summary line, 0 if there is none (the loop breaks there)
SummaryIndex(lines) ==
    LET hits == {i \in 1..Len(lines) : IsSummaryLine(lines[i])}
    IN  IF hits = {} THEN 0 ELSE CHOOSE h \in hits : \A k \in hits : h <= k

\* lines 243-275: summary_passed, summary_failed, summary_errors and time
ParseSummary(lines) ==
    LET n == SummaryIndex(lines)
        cnt(word) == IF n = 0 \/ CountBefore(lines[n], word) < 0 THEN 0
                     ELSE CountBefore(lines[n], word)
    IN  [passed |-> cnt(S_SP_passed),
         failed |-> cnt(S_SP_failed),
         errors |-> cnt(S_SP_error),
         time   |-> IF n = 0 \/ TimeMatch(lines[n]) = None THEN S_NA
                    ELSE TimeMatch(lines[n])]

\* lines 277-311: the summary counts win as soon as one of them is positive
UseSummary(sm) == sm.passed > 0 \/ sm.failed > 0 \/ sm.errors > 0

(***************************************************************************)
(* Failure details (lines 313-339)                                         *)
(***************************************************************************)
\* parts = line_stripped.split(" ", 1); f"{parts[0]}: {parts[1].strip()}"
FailureDetail(line_stripped) ==
    LET sp == FindChar(line_stripped, 1, " ")
    IN  SubSeq(line_stripped, 1, sp - 1) \o S_COLON_SP
          \o strip(SubSeq(line_stripped, sp + 1, Len(line_stripped)))

RECURSIVE FailureDetails(_, _, _)
FailureDetails(lines, i, in_summary_section) ==
    IF i > Len(lines) THEN <<>>
    ELSE LET line_stripped == strip(lines[i])
         IN  IF contains(line_stripped, S_SHORT_SUMMARY)
             THEN FailureDetails(lines, i + 1, TRUE)
             ELSE IF in_summary_section /\ startswith(line_stripped, S_EQ2)
             THEN <<>>
             ELSE IF in_summary_section
                     /\ (startswith(line_stripped, S_FAILED_SP)
                         \/ startswith(line_stripped, S_ERROR_SP))
             THEN <<FailureDetail(line_stripped)>>
                    \o FailureDetails(lines, i + 1, in_summary_section)
             ELSE FailureDetails(lines, i + 1, in_summary_section)

(***************************************************************************)
(* parse_pytest_log on the text of a log that was read                     *)
(*                                                                         *)
(* The content of a file is the sequence content.split("\n") of its lines. *)
(* No pattern of the aggregator's strip_ansi_codes matches a newline, so   *)
(* stripping the content strips each line.                                 *)
(***************************************************************************)
\* lines 82-85: the fallback stripping, only when "\x1b[" is in the content
StripFallback(lines) ==
    IF \E i \in 1..Len(lines) : contains(lines[i], <<ESC, "[">>)
    THEN [i \in 1..Len(lines) |-> strip_ansi_codes(lines[i])]
    ELSE lines

\* line 90
HasFailures(lines) ==
    \E i \in 1..Len(lines) : contains(lines[i], S_FAILED) \/ contains(lines[i], S_ERROR)

\* line 91
StatusOf(has_failures) == IF has_failures THEN STATUS_FAIL ELSE STATUS_PASS

\* lines 341-349: the result returned for the stripped content, given the
\* loop's final state
ParsedResult(lines, st) ==
    LET sm == ParseSummary(lines)
    IN  [status |-> StatusOf(HasFailures(lines)),
         passed |-> IF UseSummary(sm) THEN sm.passed ELSE st.passed,
         failed |-> IF UseSummary(sm) THEN sm.failed ELSE st.failed,
         errors |-> IF UseSummary(sm) THEN sm.errors ELSE st.errors,
         time |-> sm.time,
         log_exists |-> TRUE,
         failure_details |-> IF HasFailures(lines) THEN FailureDetails(lines, 1, FALSE)
                             ELSE <<>>]

\* lines 63-73
NoLogResult ==
    [status |-> STATUS_NO_LOG, passed |-> 0, failed |-> 0, errors |-> 0,
     time |-> S_NA, log_exists |-> FALSE, failure_details |-> <<>>]

\* lines 351-361; the one failure detail is the text of the exception
ErrorResult(e) ==
    [status |-> STATUS_ERROR, passed |-> 0, failed |-> 0, errors |-> 0,
     time |-> S_NA, log_exists |-> FALSE, failure_details |-> <<e>>]

(***************************************************************************)
(* Files                                                                   *)
(***************************************************************************)
Absent == [kind |-> "absent", lines |-> <<>>]
\* open() raises (no permission, or the name is a directory)
Unreadable == [kind |-> "unreadable", lines |-> <<>>]
\* f.read() raises UnicodeDecodeError
Undecodable == [kind |-> "undecodable", lines |-> <<>>]
TextFile(ls) == [kind |-> "text", lines |-> ls]

\* os.path.exists
exists(file) == file.kind # "absent"

\* the exception raised by open() / f.read() on a file that exists, "" if none
ExceptionOf(file) ==
    CASE file.kind = "unreadable" -> "PermissionError"
      [] file.kind = "undecodable" -> "UnicodeDecodeError"
      [] OTHER -> ""

S_DENIED == <<"d", "e", "n", "i", "e", "d">>
S_CODEC == <<"c", "o", "d", "e", "c">>

\* str(e)
ExceptionText(e) == IF e = "PermissionError" THEN S_DENIED ELSE S_CODEC

CatchesOSErrorOnly(e) == e = "PermissionError"

\* line 351: except Exception
Catches(e) == e \in {"PermissionError", "UnicodeDecodeError"}

PrefersRaw(primary, raw) ==
    IF exists(raw) THEN "raw" ELSE IF exists(primary) THEN "primary" ELSE "none"

\* lines 48-63: the first of pytest-output.log, pytest-output-raw.log that exists
ActualLogFile(primary, raw) ==
    IF exists(primary) THEN "primary" ELSE IF exists(raw) THEN "raw" ELSE "none"

\* log_data while parse_pytest_log has not returned
Unset == [status |-> "unset"]

\* the value seen by the caller when the exception is not caught
Raised == [status |-> "raised"]

\* lines 78-361 on the file that was found
ParseFile(file) ==
    IF file.kind = "text"
    THEN LET ls == StripFallback(file.lines)
         IN  ParsedResult(ls, ParseLines(ls, 1, LoopInit))
    ELSE IF Catches(ExceptionOf(file))
    THEN ErrorResult(S_FAILED_TO_PARSE \o ExceptionText(ExceptionOf(file)))
    ELSE Raised

\* parse_pytest_log(<dir>/pytest-output.log) as a function of the two files
parse_pytest_log(primary, raw) ==
    LET a == ActualLogFile(primary, raw)
    IN  IF a = "none" THEN NoLogResult
        ELSE ParseFile(IF a = "primary" THEN primary ELSE raw)

(***************************************************************************)
(* Python dicts keep insertion order: a dict is the sequence of its         *)
(* <<key, value>> pairs, each key once                                     *)
(***************************************************************************)
DictKeys(d) == {d[i][1] : i \in 1..Len(d)}

\* d[k], for k in d
DictGet(d, k) == d[CHOOSE i \in 1..Len(d) : d[i][1] = k][2]

DictSetDefault(d, k, v) == IF k \in DictKeys(d) THEN d ELSE Append(d, <<k, v>>)

\* d[k] = v: a new key goes last, a key already there keeps its place
DictSet(d, k, v) ==
    IF k \in DictKeys(d)
    THEN [i \in 1..Len(d) |-> IF d[i][1] = k THEN <<k, v>> ELSE d[i]]
    ELSE Append(d, <<k, v>>)

\* list(d.keys())
KeyList(d) == [i \in 1..Len(d) |-> d[i][1]]

(***************************************************************************)
(* extract_individual_test_results (lines 413-529)                         *)
(***************************************************************************)
ExtractRecordKeepsPending(st, version, test, w) ==
    [st EXCEPT !.version_results = Append(@, <<test, w>>),
               !.test_results =
                   DictSet(@, test,
                           DictSet(IF test \in DictKeys(@) THEN DictGet(@, test) ELSE <<>>,
                                   version, w))]

\* lines 489-497 and 514-522: the result goes to version_results and to
\* test_results[current_test][version]; the pending test is reset
ExtractRecord(st, version, test, w) ==
    [st EXCEPT !.version_results = Append(@, <<test, w>>),
               !.test_results =
                   DictSet(@, test,
                           DictSet(IF test \in DictKeys(@) THEN DictGet(@, test) ELSE <<>>,
                                   version, w)),
               !.current_test = None]

\* lines 454-522: one iteration of the loop over the lines of one version
ExtractLineStep(st, version, raw_line) ==
    LET line == strip(raw_line)
    IN  IF line = <<>> THEN st
        ELSE IF startswith(line, S_SUITE_APPS) /\ contains(line, S_COLONS)
        THEN IF SameLineWord(line) # None
             THEN LET m == TestNameMatch(line)
                  IN  IF m # None THEN ExtractRecord(st, version, m, SameLineWord(line))
                      ELSE st
             ELSE [st EXCEPT !.current_test = NameOnlyTest(line)]
        ELSE LET test_status == ResultFound(line)
             IN  IF test_status # None /\ st.current_test # None
                 THEN ExtractRecord(st, version, st.current_test, test_status)
                 ELSE st

RECURSIVE ExtractLines(_, _, _, _)
ExtractLines(lines, i, version, st) ==
    IF i > Len(lines) THEN st
    ELSE ExtractLines(lines, i + 1, version, ExtractLineStep(st, version, lines[i]))

\* lines 427-438: the log of a version under the relative path
\* downloaded-artifacts/sanity-test-results-<version>, Absent if none is found
DownloadedLog(downloaded, version) ==
    IF version \notin DOMAIN downloaded THEN Absent
    ELSE IF exists(downloaded[version].primary) THEN downloaded[version].primary
    ELSE IF exists(downloaded[version].raw) THEN downloaded[version].raw
    ELSE Absent

\* lines 420-527: the body of the loop over the results; acc holds test_results
\* and, by version, the version_results whose length is printed
ExtractVersion(acc, result, downloaded) ==
    LET log_file == DownloadedLog(downloaded, result.version)
    IN  IF ~result.log_exists \/ ~exists(log_file) \/ log_file.kind # "text" THEN acc
        ELSE LET st == ExtractLines(StripFallback(log_file.lines), 1, result.version,
                                    [current_test |-> None, version_results |-> <<>>,
                                     test_results |-> acc.test_results])
             IN  [test_results |-> st.test_results,
                  version_results |->
                      DictSet(acc.version_results, result.version, st.version_results)]

RECURSIVE ExtractResults(_, _, _, _)
ExtractResults(results, i, downloaded, acc) ==
    IF i > Len(results) THEN acc
    ELSE ExtractResults(results, i + 1, downloaded,
                        ExtractVersion(acc, results[i], downloaded))

ExtractSharedTests(results, downloaded) ==
    LET all == ExtractResults(results, 1, downloaded,
                              [test_results |-> <<>>, version_results |-> <<>>])
        shared(p) == Len(p[2]) > 1
    IN  [all EXCEPT !.test_results = SelectSeq(@, shared)]

extract_individual_test_results(results, downloaded) ==
    ExtractResults(results, 1, downloaded, [test_results |-> <<>>, version_results |-> <<>>])

(***************************************************************************)
(* find_inconsistent_tests (lines 532-559)                                 *)
(***************************************************************************)
VersionsWithoutError(version_results, wanted) ==
    LET hit(p) == p[2] \in wanted \ {S_ERROR}
    IN  KeyList(SelectSeq(version_results, hit))

\* [v for v, s in version_results.items() if s in wanted]
VersionsWith(version_results, wanted) ==
    LET hit(p) == p[2] \in wanted
    IN  KeyList(SelectSeq(version_results, hit))

SeenOnTwoVersions(version_results) == ~(Len(version_results) < 2)

\* lines 540-545: the test has different results across versions
IsInconsistent(version_results) ==
    /\ ~(Len(version_results) < 2)
    /\ Cardinality({version_results[i][2] : i \in 1..Len(version_results)}) > 1

\* lines 547-557
InconsistentEntry(test_name, version_results) ==
    [test_name |-> test_name,
     passed_versions |-> VersionsWith(version_results, {S_PASSED}),
     failed_versions |-> VersionsWith(version_results, {S_FAILED, S_ERROR}),
     all_results |-> version_results]

RECURSIVE FindInconsistent(_, _)
FindInconsistent(test_results, i) ==
    IF i > Len(test_results) THEN <<>>
    ELSE (IF IsInconsistent(test_results[i][2])
          THEN <<InconsistentEntry(test_results[i][1], test_results[i][2])>>
          ELSE <<>>) \o FindInconsistent(test_results, i + 1)

find_inconsistent_tests(test_results, all_versions) == FindInconsistent(test_results, 1)

(***************************************************************************)
(* analyze_regressions (lines 562-644)                                     *)
(***************************************************************************)
\* the spelling of the version names
VersionChars(v) ==
    CASE v = "cloud" -> <<"c", "l", "o", "u", "d">>
      [] v = "previous" -> <<"p", "r", "e", "v", "i", "o", "u", "s">>
      [] v = "next_a" -> <<"n", "e", "x", "t", "_", "a">>
      [] v = "next_b" -> <<"n", "e", "x", "t", "_", "b">>

UpperSeq ==
    <<"A", "B", "C", "D", "E", "F", "G", "H", "I", "J", "K", "L", "M",
      "N", "O", "P", "Q", "R", "S", "T", "U", "V", "W", "X", "Y", "Z">>

LowerSeq ==
    <<"a", "b", "c", "d", "e", "f", "g", "h", "i", "j", "k", "l", "m",
      "n", "o", "p", "q", "r", "s", "t", "u", "v", "w", "x", "y", "z">>

\* str.lower()
lower(s) ==
    [i \in 1..Len(s) |->
        IF s[i] \in Upper THEN LowerSeq[CHOOSE n \in 1..26 : UpperSeq[n] = s[i]] ELSE s[i]]

S_next == <<"n", "e", "x", "t">>

\* line 574: v in ["cloud", "previous"]
IsStable(v) == v \in {"cloud", "previous"}

\* line 575: "next" in v.lower()
IsNext(v) == contains(lower(VersionChars(v)), S_next)

Failing == {S_FAILED, S_ERROR}

S_MISSING == <<"M", "I", "S", "S", "I", "N", "G">>

OutcomesWithMissing(versions, version_results) ==
    [i \in 1..Len(versions) |->
        <<versions[i], IF versions[i] \in DictKeys(version_results)
                       THEN DictGet(version_results, versions[i]) ELSE S_MISSING>>]

\* lines 583-588: {v: version_results.get(v, "MISSING") for v in versions
\*                 if v in version_results}
Outcomes(versions, version_results) ==
    LET present(v) == v \in DictKeys(version_results)
        vs == SelectSeq(versions, present)
    IN  [i \in 1..Len(vs) |-> <<vs[i], DictGet(version_results, vs[i])>>]

\* any(outcome in wanted for outcome in outcomes.values())
AnyOutcome(outcomes, wanted) == \E i \in 1..Len(outcomes) : outcomes[i][2] \in wanted

\* all(outcome in wanted for outcome in outcomes.values())
AllOutcomes(outcomes, wanted) == \A i \in 1..Len(outcomes) : outcomes[i][2] \in wanted

\* line 591: the test is skipped
SkipsTest(stable_outcomes, next_outcomes) == stable_outcomes = <<>> \/ next_outcomes = <<>>

PassesOnAllStable(stable_outcomes, next_outcomes) ==
    AllOutcomes(stable_outcomes, {S_PASSED}) /\ AnyOutcome(next_outcomes, Failing)

\* lines 595-598
IsRegression(stable_outcomes, next_outcomes) ==
    AnyOutcome(stable_outcomes, {S_PASSED}) /\ AnyOutcome(next_outcomes, Failing)

SeverityOfAnyFailure(next_outcomes) ==
    IF AnyOutcome(next_outcomes, Failing) THEN "HIGH" ELSE "MEDIUM"

\* lines 604-606
Severity(next_outcomes) == IF AllOutcomes(next_outcomes, Failing) THEN "HIGH" ELSE "MEDIUM"

PassesOnAllNext(stable_outcomes, next_outcomes) ==
    AnyOutcome(stable_outcomes, Failing) /\ AllOutcomes(next_outcomes, {S_PASSED})

PassesOnSomeNext(stable_outcomes, next_outcomes) == AnyOutcome(next_outcomes, {S_PASSED})

\* lines 611-614
IsImprovement(stable_outcomes, next_outcomes) ==
    AnyOutcome(stable_outcomes, Failing) /\ AnyOutcome(next_outcomes, {S_PASSED})

PassesOnSomeStable(stable_outcomes, next_outcomes) ==
    AnyOutcome(stable_outcomes, {S_PASSED}) /\ AllOutcomes(next_outcomes, Failing)

FailsOnAllNext(stable_outcomes, next_outcomes) ==
    IF next_outcomes # <<>> THEN AllOutcomes(next_outcomes, Failing) ELSE FALSE

\* lines 624-635
IsNewFailure(stable_outcomes, next_outcomes) ==
    /\ (IF stable_outcomes # <<>> THEN AllOutcomes(stable_outcomes, {S_PASSED}) ELSE FALSE)
    /\ (IF next_outcomes # <<>> THEN AllOutcomes(next_outcomes, Failing) ELSE FALSE)

\* lines 581-642: what one test adds to the three lists
AnalyzeTest(acc, test_name, version_results, stable_versions, next_versions) ==
    LET stable_outcomes == Outcomes(stable_versions, version_results)
        next_outcomes == Outcomes(next_versions, version_results)
        entry == [test_name |-> test_name, stable_results |-> stable_outcomes,
                  next_results |-> next_outcomes]
    IN  IF SkipsTest(stable_outcomes, next_outcomes) THEN acc
        ELSE [regressions |->
                  IF IsRegression(stable_outcomes, next_outcomes)
                  THEN Append(acc.regressions,
                              [test_name |-> test_name, stable_results |-> stable_outcomes,
                               next_results |-> next_outcomes,
                               severity |-> Severity(next_outcomes)])
                  ELSE acc.regressions,
              improvements |->
                  IF IsImprovement(stable_outcomes, next_outcomes)
                  THEN Append(acc.improvements, entry) ELSE acc.improvements,
              new_failures |->
                  IF IsNewFailure(stable_outcomes, next_outcomes)
                  THEN Append(acc.new_failures, entry) ELSE acc.new_failures]

\* lines 569-571
NoAnalysis == [regressions |-> <<>>, improvements |-> <<>>, new_failures |-> <<>>]

RECURSIVE AnalyzeTests(_, _, _, _, _)
AnalyzeTests(test_results, i, stable_versions, next_versions, acc) ==
    IF i > Len(test_results) THEN acc
    ELSE AnalyzeTests(test_results, i + 1, stable_versions, next_versions,
                      AnalyzeTest(acc, test_results[i][1], test_results[i][2],
                                  stable_versions, next_versions))

analyze_regressions(test_results, all_versions) ==
    AnalyzeTests(test_results, 1, SelectSeq(all_versions, IsStable),
                 SelectSeq(all_versions, IsNext),
                 NoAnalysis)

(***************************************************************************)
(* The version comparison in the step summary (lines 709-787) and on the   *)
(* console (lines 836-847).  The text written is a sequence of lines; a    *)
(* line is the tuple of its kind and of the values formatted into it       *)
(***************************************************************************)
\* test_name.split("::")[-1]
RECURSIVE ShortName(_)
ShortName(test_name) ==
    IF \E i \in 1..Len(test_name) : StartsWithAt(test_name, i, S_COLONS)
    THEN LET first == CHOOSE i \in 1..Len(test_name) :
                          /\ StartsWithAt(test_name, i, S_COLONS)
                          /\ \A j \in 1..(i - 1) : ~StartsWithAt(test_name, j, S_COLONS)
         IN  ShortName(SubSeq(test_name, first + 2, Len(test_name)))
    ELSE test_name

\* the characters of the version names, in the order of their code points
CodePoints ==
    <<"_", "a", "b", "c", "d", "e", "f", "g", "h", "i", "j", "k", "l", "m",
      "n", "o", "p", "q", "r", "s", "t", "u", "v", "w", "x", "y", "z">>

Ord(c) == CHOOSE n \in 1..Len(CodePoints) : CodePoints[n] = c

\* a < b for two str
StrLess(a, b) ==
    \E i \in 1..(Len(b)) :
        /\ \A k \in 1..(i - 1) : k <= Len(a) /\ a[k] = b[k]
        /\ \/ i = Len(a) + 1
           \/ i <= Len(a) /\ Ord(a[i]) < Ord(b[i])

\* sorted(versions): each version goes after the versions below it
RECURSIVE SortedList(_)
SortedList(versions) ==
    IF versions = <<>> THEN <<>>
    ELSE LET v == versions[Len(versions)]
             rest == SortedList(SubSeq(versions, 1, Len(versions) - 1))
             below(w) == ~StrLess(VersionChars(v), VersionChars(w))
             above(w) == StrLess(VersionChars(v), VersionChars(w))
         IN  SelectSeq(rest, below) \o <<v>> \o SelectSeq(rest, above)

\* list[:cap]
Slice(list, cap) == SubSeq(list, 1, IF Len(list) < cap THEN Len(list) ELSE cap)

HighSeverityCap == 5

MediumSeverityCap == 3

ImprovementsCap == 3

InconsistentCap == 5

ConsoleCap == 5

\* lines 726-734, 739-747 and 757-765: the name line and the two lines of outcomes
ComparedEntry(kind, entry) ==
    <<kind, ShortName(entry.test_name), entry.stable_results, entry.next_results>>

ComparedEntries(kind, list) == [i \in 1..Len(list) |-> ComparedEntry(kind, list[i])]

\* lines 710-747
RegressionsSection(regressions) ==
    LET is_high(r) == r.severity = "HIGH"
        is_medium(r) == r.severity = "MEDIUM"
        high_severity == SelectSeq(regressions, is_high)
        medium_severity == SelectSeq(regressions, is_medium)
    IN  IF regressions = <<>> THEN <<>>
        ELSE <<<<"regressions", Len(regressions)>>>>
                 \o (IF high_severity # <<>>
                     THEN <<<<"high severity">>>>
                              \o ComparedEntries("regression",
                                                 Slice(high_severity, HighSeverityCap))
                     ELSE <<>>)
                 \o (IF medium_severity # <<>>
                     THEN <<<<"medium severity">>>>
                              \o ComparedEntries("regression",
                                                 Slice(medium_severity, MediumSeverityCap))
                     ELSE <<>>)

\* lines 750-765
ImprovementsSection(improvements) ==
    IF improvements = <<>> THEN <<>>
    ELSE <<<<"improvements", Len(improvements)>>>>
             \o ComparedEntries("improvement", Slice(improvements, ImprovementsCap))

\* lines 775-784: the name line, then the failed and the passed versions; a
\* line of versions is written if the list is not empty
IssueEntry(issue) ==
    <<"issue", ShortName(issue.test_name), SortedList(issue.failed_versions),
      SortedList(issue.passed_versions)>>

\* lines 783-784 and 843-846
MoreInconsistentTests(inconsistent, cap) ==
    IF Len(inconsistent) > cap THEN <<<<"more", Len(inconsistent) - cap>>>> ELSE <<>>

\* lines 768-787
InconsistenciesSection(inconsistent) ==
    IF inconsistent # <<>>
    THEN LET shown == Slice(inconsistent, InconsistentCap)
         IN  <<<<"inconsistencies", Len(inconsistent)>>>>
                 \o [i \in 1..Len(shown) |-> IssueEntry(shown[i])]
                 \o MoreInconsistentTests(inconsistent, InconsistentCap)
    ELSE <<<<"consistent">>>>

\* lines 709-787: what generate_github_summary writes about the comparison
ComparisonSummary(analysis, inconsistent) ==
    RegressionsSection(analysis.regressions)
        \o ImprovementsSection(analysis.improvements)
        \o InconsistenciesSection(inconsistent)

\* lines 836-847: what main prints about the comparison
ComparisonConsole(inconsistent) ==
    IF inconsistent # <<>>
    THEN LET shown == Slice(inconsistent, ConsoleCap)
         IN  <<<<"inconsistencies", Len(inconsistent)>>>>
                 \o [i \in 1..Len(shown) |-> IssueEntry(shown[i])]
                 \o MoreInconsistentTests(inconsistent, ConsoleCap)
    ELSE <<<<"consistent">>>>

(***************************************************************************)
(* TestResultsAnalyzer.analyze_test_differences (analyze_test_results.py)  *)
(***************************************************************************)
\* lines 208-211: test_by_name[result.test_name][result.environment] = result
RECURSIVE GroupFrom(_, _, _)
GroupFrom(rs, i, by_name) ==
    IF i > Len(rs) THEN by_name
    ELSE GroupFrom(rs, i + 1,
                   DictSet(by_name, rs[i].test_name,
                           DictSet(IF rs[i].test_name \in DictKeys(by_name)
                                   THEN DictGet(by_name, rs[i].test_name) ELSE <<>>,
                                   rs[i].environment, rs[i])))

GroupByName(rs) == GroupFrom(rs, 1, <<>>)

\* lines 217-219
Differs(env_results) ==
    Cardinality({env_results[i][2].status : i \in 1..Len(env_results)}) > 1

\* lines 214-220: the (test_name, env_results) pairs appended
DifferingTests(by_name) ==
    LET differs(p) == Differs(p[2])
    IN  SelectSeq(by_name, differs)

\* line 250
DifferencesOk(inconsistent) == Len(inconsistent) = 0

\* lines 181 and 129-136: the six environments
EnvironmentOrder ==
    <<"next_ol8", "next_ol9", "next_amzn2023", "previous", "cloud", "cloud_next">>

\* lines 145-166: the number of results of an environment with a status
SummaryCount(rs, env, status) ==
    Cardinality({n \in 1..Len(rs) : rs[n].environment = env /\ rs[n].status = status})

NoFailedResults(rs) ==
    \A i \in 1..Len(EnvironmentOrder) :
        /\ SummaryCount(rs, EnvironmentOrder[i], S_FAILED) = 0
        /\ SummaryCount(rs, EnvironmentOrder[i], S_ERROR) = 0

\* lines 179-200: overall_status == "PASS"; an environment with no result
\* counts as a failure
StatusOk(rs) ==
    \A i \in 1..Len(EnvironmentOrder) :
        /\ \E n \in 1..Len(rs) : rs[n].environment = EnvironmentOrder[i]
        /\ SummaryCount(rs, EnvironmentOrder[i], S_FAILED) = 0
        /\ SummaryCount(rs, EnvironmentOrder[i], S_ERROR) = 0

\* lines 296-306: exit(1) if analyze returned False or raised an Exception; a
\* SystemExit of load_test_results carries the status 1
AnalyzerExitCode(outcome) == IF outcome = "True" THEN 0 ELSE 1

(***************************************************************************)
(* Inputs                                                                  *)
(***************************************************************************)
LN_EMPTY == <<>>
LN_PASS_SAME ==
    <<"s", "u", "i", "t", "e", "/", "a", "p", "p", "s", "/", "a", ":", ":", "t", "[", "p", "]",
      " ", "P", "A", "S", "S", "E", "D", " ", "[", " ", "5", "%", "]">>
LN_FAIL_SAME ==
    <<"s", "u", "i", "t", "e", "/", "a", "p", "p", "s", "/", "a", ":", ":", "t", "[", "p", "]",
      " ", "F", "A", "I", "L", "E", "D", " ", "[", " ", "5", "%", "]">>
LN_ERROR_SAME ==
    <<"s", "u", "i", "t", "e", "/", "a", "p", "p", "s", "/", "a", ":", ":", "t", "[", "p", "]",
      " ", "E", "R", "R", "O", "R", " ", "[", " ", "5", "%", "]">>
LN_NAME ==
    <<"s", "u", "i", "t", "e", "/", "a", "p", "p", "s", "/", "a", ":", ":", "t", "[", "q", "]">>
LN_PASSED == <<"P", "A", "S", "S", "E", "D", " ", "[", " ", "5", "%", "]">>
LN_ERROR == <<"E", "R", "R", "O", "R", " ", "[", " ", "5", "%", "]">>
LN_SUMMARY ==
    <<"=", "=", " ", "1", " ", "f", "a", "i", "l", "e", "d", ",", " ", "2", " ", "p", "a", "s",
      "s", "e", "d", " ", "i", "n", " ", "1", ".", "5", "s", " ", "=", "=", "=">>
LN_SUMMARY_ERR ==
    <<"=", "=", " ", "1", " ", "e", "r", "r", "o", "r", " ", "i", "n", " ", "2", "s", " ", "=",
      "=", "=">>
LN_NOISE == <<"r", "e", "t", "r", "y", " ", "o", "n", " ", "E", "R", "R", "O", "R">>
LN_ANSI ==
    <<ESC, "[", "3", "2", "m", "P", "A", "S", "S", "E", "D", ESC, "[", "0", "m", " ", "[", " ",
      "5", "%", "]">>
LN_ORPHAN ==
    <<"[", "3", "2", "m", "P", "A", "S", "S", "E", "D", "[", "0", "m", " ", "[", " ", "5", "%",
      "]">>
LN_SHORT ==
    <<"=", " ", "s", "h", "o", "r", "t", " ", "t", "e", "s", "t", " ", "s", "u", "m", "m", "a",
      "r", "y", " ", "i", "n", "f", "o", " ", "=">>
LN_DETAIL ==
    <<"F", "A", "I", "L", "E", "D", " ", "s", "u", "i", "t", "e", "/", "a", "p", "p", "s", "/",
      "a", ":", ":", "t", "[", "p", "]", " ", "-", " ", "x">>
LN_SUMMARY_RECON ==
    <<"=", "=", " ", "2", " ", "f", "a", "i", "l", "e", "d", ",", " ", "3", " ", "p", "a", "s",
      "s", "e", "d", ",", " ", "1", " ", "e", "r", "r", "o", "r", " ", "i", "n", " ", "1", "2",
      ".", "3", "4", "s", " ", "=", "=", "=">>
LN_BARE_RECON ==
    <<"2", " ", "f", "a", "i", "l", "e", "d", ",", " ", "3", " ", "p", "a", "s", "s", "e", "d",
      ",", " ", "1", " ", "e", "r", "r", "o", "r", " ", "i", "n", " ", "1", "2", ".", "3", "4",
      "s">>
S_TIME_RECON == <<"1", "2", ".", "3", "4", "s">>

\* the lines the bounded logs are made of
LogLines ==
    {LN_EMPTY, LN_PASS_SAME, LN_FAIL_SAME, LN_NAME, LN_PASSED, LN_ERROR, LN_SUMMARY,
     LN_SUMMARY_ERR, LN_NOISE, LN_ANSI, LN_ORPHAN, LN_SHORT, LN_DETAIL}

MaxLogLines == 2

\* 3 PASSED, 2 FAILED, 1 ERROR and the summary line
ReconciliationLog ==
    <<LN_PASS_SAME, LN_PASS_SAME, LN_PASS_SAME, LN_FAIL_SAME, LN_FAIL_SAME, LN_ERROR_SAME,
      LN_SUMMARY_RECON>>

\* the same with the counts on a line without the == delimiters
BareReconciliationLog ==
    <<LN_PASS_SAME, LN_PASS_SAME, LN_PASS_SAME, LN_FAIL_SAME, LN_FAIL_SAME, LN_ERROR_SAME,
      LN_BARE_RECON>>

\* one ERROR result and pytest's summary line for it
ErrorOnlyLog == <<LN_ERROR_SAME, LN_SUMMARY_ERR>>

\* a failure with its short test summary section
DetailLog == <<LN_FAIL_SAME, LN_SHORT, LN_DETAIL, LN_SUMMARY>>

\* a test name line with a result and no [...] to end the name at
LN_UNMATCHED ==
    <<"s", "u", "i", "t", "e", "/", "a", "p", "p", "s", "/", "a", ":", ":", "t", " ", "P", "A",
      "S", "S", "E", "D">>

\* a name, its result, and a second result
PendingLog == <<LN_NAME, LN_PASSED, LN_ERROR>>

\* a name, a name line that gives no name, and a result
UnmatchedNameLog == <<LN_NAME, LN_UNMATCHED, LN_ERROR>>

Logs ==
    UNION {[1..n -> LogLines] : n \in 1..MaxLogLines}
      \cup {ReconciliationLog, BareReconciliationLog, ErrorOnlyLog, DetailLog, PendingLog,
            UnmatchedNameLog}

PrimaryFiles == {Absent, Unreadable, Undecodable} \cup {TextFile(l) : l \in Logs}

RawFiles == {Absent, Unreadable, TextFile(<<LN_FAIL_SAME>>)}

\* the characters the texts given to strip_ansi_codes are made of
StripChars == {ESC, "[", "]", "3", ";", "m", "A", BEL, BSL}

MaxTextLen == 4

Texts == UNION {[1..n -> StripChars] : n \in 0..MaxTextLen}

MaxPasses == 2

(***************************************************************************)
(* State                                                                   *)
(***************************************************************************)
VARIABLES
    text_in,          \* the text given to the two strip_ansi_codes
    agg_text,         \* aggregate_results.strip_ansi_codes applied agg_passes times
    agg_passes,
    sa_text,          \* strip_ansi.strip_ansi_codes applied sa_passes times
    sa_passes,
    primary_file,     \* <dir>/pytest-output.log
    raw_file,         \* <dir>/pytest-output-raw.log
    ppc,              \* position in parse_pytest_log
    actual_log_file,
    lines,            \* content.split("\n")
    line_no,          \* 1-based index of the next line of the loop
    loop,             \* current_test, passed, failed, errors, individual_results,
                      \* debug_results_found
    log_data,         \* the dict returned
    raised,           \* an exception left parse_pytest_log
    root_exists,      \* os.path.exists(args.artifacts_path)
    entries,          \* what the glob sanity-test-results-* matches, by version
    step_summary,     \* GITHUB_STEP_SUMMARY is set
    pc,               \* position in main
    todo,             \* artifact_dirs not yet visited by process_artifacts
    results,          \* list[TestResult]
    processed,        \* number of calls of parse_pytest_log
    summary_file,     \* what was appended to the step summary file
    console,          \* the messages of main that tell the outcome
    exit_code,        \* -1 while the process runs
    downloaded,       \* the directories sanity-test-results-* that
                      \* extract_individual_test_results finds under ./downloaded-artifacts
    all_versions,     \* [r.version for r in results]
    test_results,     \* dict[test_name, dict[version, status]]
    version_results,  \* by version, the version_results of extract_individual_test_results
    inconsistent_tests,
    regression_analysis,
    self_test_results,   \* TestResultsAnalyzer.test_results
    test_by_name,        \* the grouping made by analyze_test_differences
    analyzer_inconsistent,
    analyze_result,      \* what analyzer.analyze() gave: its value or its exception
    cpc               \* position in the version comparison

parse_vars == <<primary_file, raw_file, ppc, actual_log_file, lines, line_no, loop,
                log_data, raised>>

strip_vars == <<text_in, agg_text, agg_passes, sa_text, sa_passes>>

main_vars == <<root_exists, entries, step_summary, pc, todo, results, processed,
               summary_file, console, exit_code>>

compare_vars == <<downloaded, all_versions, test_results, version_results,
                  inconsistent_tests, regression_analysis, self_test_results,
                  test_by_name, analyzer_inconsistent, analyze_result, cpc>>

vars == <<strip_vars, parse_vars, main_vars, compare_vars>>

StripIdle ==
    /\ text_in = <<>>
    /\ agg_text = <<>>
    /\ agg_passes = 0
    /\ sa_text = <<>>
    /\ sa_passes = 0

ParseIdle ==
    /\ primary_file = Absent
    /\ raw_file = Absent
    /\ ppc = "idle"
    /\ actual_log_file = "none"
    /\ lines = <<>>
    /\ line_no = 0
    /\ loop = LoopInit
    /\ log_data = Unset
    /\ raised = FALSE

MainParked ==
    /\ root_exists = FALSE
    /\ entries = <<>>
    /\ step_summary = FALSE
    /\ pc = "idle"
    /\ todo = {}
    /\ processed = 0
    /\ summary_file = <<>>
    /\ console = <<>>
    /\ exit_code = -1

MainIdle == MainParked /\ results = <<>>

AnalyzerIdle ==
    /\ self_test_results = <<>>
    /\ test_by_name = <<>>
    /\ analyzer_inconsistent = <<>>
    /\ analyze_result = "none"

CompareParked ==
    /\ all_versions = <<>>
    /\ test_results = <<>>
    /\ version_results = <<>>
    /\ inconsistent_tests = <<>>
    /\ regression_analysis = NoAnalysis
    /\ AnalyzerIdle
    /\ cpc = "idle"

CompareIdle == downloaded = <<>> /\ CompareParked

(***************************************************************************)
(* strip_ansi_codes applied to a text, then to its own result              *)
(***************************************************************************)
InitStrip ==
    /\ text_in \in Texts
    /\ agg_text = text_in
    /\ agg_passes = 0
    /\ sa_text = text_in
    /\ sa_passes = 0
    /\ ParseIdle
    /\ MainIdle
    /\ CompareIdle

AggregatorStrip ==
    /\ agg_passes < MaxPasses
    /\ agg_text' = strip_ansi_codes(agg_text)
    /\ agg_passes' = agg_passes + 1
    /\ UNCHANGED <<text_in, sa_text, sa_passes, parse_vars, main_vars, compare_vars>>

StandaloneStrip ==
    /\ sa_passes < MaxPasses
    /\ sa_text' = standalone_strip_ansi_codes(sa_text)
    /\ sa_passes' = sa_passes + 1
    /\ UNCHANGED <<text_in, agg_text, agg_passes, parse_vars, main_vars, compare_vars>>

NextStrip == AggregatorStrip \/ StandaloneStrip

SpecStrip == InitStrip /\ [][NextStrip]_vars

(***************************************************************************)
(* parse_pytest_log on one artifact directory                              *)
(***************************************************************************)
InitParse ==
    /\ primary_file \in PrimaryFiles
    /\ raw_file \in RawFiles
    /\ ppc = "call"
    /\ actual_log_file = "none"
    /\ lines = <<>>
    /\ line_no = 0
    /\ loop = LoopInit
    /\ log_data = Unset
    /\ raised = FALSE
    /\ StripIdle
    /\ MainIdle
    /\ CompareIdle

\* lines 48-76
FindLog ==
    /\ ppc = "call"
    /\ actual_log_file' = ActualLogFile(primary_file, raw_file)
    /\ IF actual_log_file' = "none"
       THEN log_data' = NoLogResult /\ ppc' = "return"
       ELSE log_data' = log_data /\ ppc' = "read"
    /\ UNCHANGED <<primary_file, raw_file, lines, line_no, loop, raised, strip_vars, main_vars, compare_vars>>

FoundFile == IF actual_log_file = "primary" THEN primary_file ELSE raw_file

\* lines 78-110, and lines 351-361 when open() or read() raises
ReadLog ==
    /\ ppc = "read"
    /\ IF FoundFile.kind = "text"
       THEN /\ lines' = StripFallback(FoundFile.lines)
            /\ line_no' = 1
            /\ loop' = LoopInit
            /\ ppc' = "lines"
            /\ UNCHANGED <<log_data, raised>>
       ELSE /\ ppc' = "return"
            /\ IF Catches(ExceptionOf(FoundFile))
               THEN /\ log_data' = ErrorResult(S_FAILED_TO_PARSE
                                                 \o ExceptionText(ExceptionOf(FoundFile)))
                    /\ raised' = FALSE
               ELSE /\ log_data' = Raised
                    /\ raised' = TRUE
            /\ UNCHANGED <<lines, line_no, loop>>
    /\ UNCHANGED <<primary_file, raw_file, actual_log_file, strip_vars, main_vars, compare_vars>>

\* lines 112-230: one iteration of the loop
NextLine ==
    /\ ppc = "lines"
    /\ line_no <= Len(lines)
    /\ loop' = LineStep(loop, lines[line_no])
    /\ line_no' = line_no + 1
    /\ UNCHANGED <<primary_file, raw_file, ppc, actual_log_file, lines, log_data, raised,
                   strip_vars, main_vars, compare_vars>>

\* lines 232-349: the summary line, the failure details and the return
FinishParse ==
    /\ ppc = "lines"
    /\ line_no > Len(lines)
    /\ log_data' = ParsedResult(lines, loop)
    /\ ppc' = "return"
    /\ UNCHANGED <<primary_file, raw_file, actual_log_file, lines, line_no, loop, raised,
                   strip_vars, main_vars, compare_vars>>

NextParse == FindLog \/ ReadLog \/ NextLine \/ FinishParse

SpecParse == InitParse /\ [][NextParse]_vars

(***************************************************************************)
(* process_artifacts and main                                              *)
(***************************************************************************)
\* the version names, in the order sort() puts them
VersionOrder == <<"cloud", "next_a", "previous">>

Versions == {VersionOrder[i] : i \in 1..Len(VersionOrder)}

VersionRank(v) == CHOOSE i \in 1..Len(VersionOrder) : VersionOrder[i] = v

MaxEnvs == 2

\* a glob match that is not a directory
FileEntry == [isdir |-> FALSE, primary |-> Absent, raw |-> Absent]

DirEntry(primary, raw) == [isdir |-> TRUE, primary |-> primary, raw |-> raw]

MainPrimaryFiles ==
    {Absent, Unreadable, TextFile(<<LN_PASS_SAME>>), TextFile(<<LN_FAIL_SAME>>),
     TextFile(ErrorOnlyLog), TextFile(<<LN_NOISE>>)}

MainRawFiles == {Absent, TextFile(<<LN_FAIL_SAME>>)}

Entries == {FileEntry} \cup {DirEntry(p, r) : p \in MainPrimaryFiles, r \in MainRawFiles}

\* the matches of sanity-test-results-* under the artifacts root
EntryMaps ==
    UNION {[vs -> Entries] : vs \in {x \in SUBSET Versions : Cardinality(x) <= MaxEnvs}}

\* lines 395-404
MakeResult(version, data) ==
    [version |-> version, status |-> data.status, passed |-> data.passed,
     failed |-> data.failed, errors |-> data.errors, time |-> data.time,
     log_exists |-> data.log_exists, failure_details |-> data.failure_details]

SkipsMissingLogs(rs, version, entry) ==
    IF ~entry.isdir \/ ~parse_pytest_log(entry.primary, entry.raw).log_exists THEN rs
    ELSE Append(rs, MakeResult(version, parse_pytest_log(entry.primary, entry.raw)))

\* lines 375-406: the body of the loop over artifact_dirs
ProcessDir(rs, version, entry) ==
    IF ~entry.isdir THEN rs
    ELSE Append(rs, MakeResult(version, parse_pytest_log(entry.primary, entry.raw)))

\* the place of a result in a list sorted by version (after equal versions)
InsertByVersion(sorted, r) ==
    LET k == Cardinality({i \in 1..Len(sorted) :
                             VersionRank(sorted[i].version) <= VersionRank(r.version)})
    IN  SubSeq(sorted, 1, k) \o <<r>> \o SubSeq(sorted, k + 1, Len(sorted))

\* line 409: results.sort(key=lambda x: x.version)
RECURSIVE SortByVersion(_)
SortByVersion(rs) ==
    IF rs = <<>> THEN <<>>
    ELSE InsertByVersion(SortByVersion(SubSeq(rs, 1, Len(rs) - 1)), rs[Len(rs)])

\* sum(r.<field> for r in results)
RECURSIVE Total(_, _)
Total(rs, field) ==
    IF rs = <<>> THEN 0 ELSE rs[1][field] + Total(Tail(rs), field)

ChecksNothing(path_exists) == FALSE

\* line 805: if not os.path.exists(args.artifacts_path)
PathMissing(path_exists) == ~path_exists

\* line 814: if not results
NoResults(rs) == rs = <<>>

FailedOnly(total_failed, total_errors) == IF total_failed > 0 THEN 1 ELSE 0

\* lines 851-859: the exit status of the process
ExitCode(total_failed, total_errors) ==
    IF total_failed > 0 \/ total_errors > 0 THEN 1 ELSE 0

\* line 658
OverallStatus(total_failed, total_errors) ==
    IF total_failed = 0 /\ total_errors = 0 THEN STATUS_PASS ELSE STATUS_FAIL

\* lines 654-680: the table and the overall summary of the step summary
SummaryReport(rs) ==
    [rows |-> [i \in 1..Len(rs) |->
                  <<rs[i].version, rs[i].status, rs[i].passed, rs[i].failed, rs[i].errors,
                    rs[i].time>>],
     overall_status |-> OverallStatus(Total(rs, "failed"), Total(rs, "errors")),
     total_passed |-> Total(rs, "passed"),
     total_failed |-> Total(rs, "failed"),
     total_errors |-> Total(rs, "errors"),
     environments |-> Len(rs)]

Init ==
    /\ root_exists \in BOOLEAN
    /\ entries \in (IF root_exists THEN EntryMaps ELSE {<<>>})
    /\ step_summary \in BOOLEAN
    /\ pc = "start"
    /\ todo = {}
    /\ results = <<>>
    /\ processed = 0
    /\ summary_file = <<>>
    /\ console = <<>>
    /\ exit_code = -1
    /\ downloaded = <<>>
    /\ CompareParked
    /\ StripIdle
    /\ ParseIdle

\* lines 805-812: the artifacts root is checked, then globbed
MainStart ==
    /\ pc = "start"
    /\ IF PathMissing(root_exists)
       THEN /\ console' = Append(console, "Error: Artifacts path does not exist")
            /\ exit_code' = 1
            /\ pc' = "exited"
            /\ todo' = todo
       ELSE /\ todo' = DOMAIN entries
            /\ pc' = "process"
            /\ UNCHANGED <<console, exit_code>>
    /\ UNCHANGED <<root_exists, entries, step_summary, results, processed, summary_file,
                   strip_vars, parse_vars, compare_vars>>

\* lines 375-406: one artifact directory, in the order glob gives them; an
\* exception of parse_pytest_log would end the process with a traceback
ProcessArtifact ==
    /\ pc = "process"
    /\ \E version \in todo :
        /\ todo' = todo \ {version}
        /\ processed' = IF entries[version].isdir THEN processed + 1 ELSE processed
        /\ IF entries[version].isdir
              /\ parse_pytest_log(entries[version].primary, entries[version].raw) = Raised
           THEN /\ exit_code' = 1
                /\ pc' = "exited"
                /\ results' = results
           ELSE /\ results' = ProcessDir(results, version, entries[version])
                /\ UNCHANGED <<exit_code, pc>>
    /\ UNCHANGED <<root_exists, entries, step_summary, summary_file, console,
                   strip_vars, parse_vars, compare_vars>>

\* lines 408-410 and 814-818: the results are sorted; none ends the process
ProcessDone ==
    /\ pc = "process"
    /\ todo = {}
    /\ results' = SortByVersion(results)
    /\ IF NoResults(results')
       THEN /\ console' = Append(console, "Warning: No sanity test artifacts found")
            /\ exit_code' = 0
            /\ pc' = "exited"
       ELSE /\ pc' = "summary"
            /\ UNCHANGED <<console, exit_code>>
    /\ UNCHANGED <<root_exists, entries, step_summary, todo, processed, summary_file,
                   strip_vars, parse_vars, compare_vars>>

\* [r.version for r in results]
VersionsOf(rs) == [i \in 1..Len(rs) |-> rs[i].version]

\* what the extraction finds under ./downloaded-artifacts: the directories of
\* the artifacts root if that is where the root is, none otherwise; the first
\* look settles it
Downloaded == IF cpc = "looked" THEN {downloaded} ELSE {entries, <<>>}

\* lines 647-707: generate_github_summary
GenerateSummary ==
    /\ pc = "summary"
    /\ pc' = "console"
    /\ IF step_summary
       THEN /\ all_versions' = VersionsOf(results)
            /\ downloaded' \in Downloaded
            /\ cpc' = "looked"
            /\ LET extracted == extract_individual_test_results(results, downloaded')
               IN  /\ test_results' = extracted.test_results
                   /\ version_results' = extracted.version_results
            /\ inconsistent_tests' = find_inconsistent_tests(test_results', all_versions')
            /\ regression_analysis' = analyze_regressions(test_results', all_versions')
            /\ summary_file' =
                   Append(Append(summary_file, SummaryReport(results)),
                          ComparisonSummary(regression_analysis', inconsistent_tests'))
       ELSE UNCHANGED <<summary_file, all_versions, downloaded, cpc, test_results,
                        version_results, inconsistent_tests, regression_analysis>>
    /\ UNCHANGED <<root_exists, entries, step_summary, todo, results, processed, console,
                   exit_code, self_test_results, test_by_name, analyzer_inconsistent,
                   analyze_result,
                   strip_vars, parse_vars>>

\* lines 823-859: the console summary and the exit status
ConsoleSummary ==
    /\ pc = "console"
    /\ exit_code' = ExitCode(Total(results, "failed"), Total(results, "errors"))
    /\ pc' = "exited"
    /\ all_versions' = VersionsOf(results)
    /\ downloaded' \in Downloaded
    /\ cpc' = "looked"
    /\ LET extracted == extract_individual_test_results(results, downloaded')
       IN  /\ test_results' = extracted.test_results
           /\ version_results' = extracted.version_results
    /\ inconsistent_tests' = find_inconsistent_tests(test_results', all_versions')
    /\ console' = Append(Append(console, ComparisonConsole(inconsistent_tests')),
                          <<IF exit_code' = 1 THEN "Overall: FAILED" ELSE "Overall: PASSED">>)
    /\ UNCHANGED <<root_exists, entries, step_summary, todo, results, processed,
                   summary_file, regression_analysis, self_test_results,
                   test_by_name, analyzer_inconsistent, analyze_result, strip_vars, parse_vars>>

Next == MainStart \/ ProcessArtifact \/ ProcessDone \/ GenerateSummary \/ ConsoleSummary

Spec == Init /\ [][Next]_vars

(***************************************************************************)
(* find_inconsistent_tests and analyze_regressions on a mapping            *)
(***************************************************************************)
\* the version names, in the order sort() puts them
CompareVersionOrder == <<"cloud", "next_a", "next_b", "previous">>

CompareVersions == {CompareVersionOrder[i] : i \in 1..Len(CompareVersionOrder)}

\* the versions of vs as a list sorted by name
SortedVersions(vs) ==
    LET in_vs(v) == v \in vs
    IN  SelectSeq(CompareVersionOrder, in_vs)

TestNames == {TestNameMatch(LN_PASS_SAME), NameOnlyTest(LN_NAME)}

Statuses == {S_PASSED, S_FAILED, S_ERROR}

MaxOutcomes == 3

\* the dicts {version: status} over the versions vs, in the order of the results
StatusMaps(vs) ==
    LET sorted == SortedVersions(vs)
    IN  {[i \in 1..Len(sorted) |-> <<sorted[i], f[sorted[i]]>>] : f \in [vs -> Statuses]}

\* the dicts of a test with outcomes on k versions, and on 1 to k versions
VersionMapsOfSize(k) ==
    UNION {StatusMaps(vs) : vs \in {x \in SUBSET CompareVersions : Cardinality(x) = k}}

VersionMapsUpTo(k) == UNION {VersionMapsOfSize(j) : j \in 1..k}

\* the mappings of one test and of two tests with at most max_outcomes outcomes
OneTestMaps(max_outcomes) ==
    {<<<<name, m>>>> : name \in TestNames, m \in VersionMapsUpTo(max_outcomes)}

TwoTestMaps(max_outcomes) ==
    UNION {UNION {{<<<<names[1], m1>>, <<names[2], m2>>>> :
                      m1 \in VersionMapsOfSize(k), m2 \in VersionMapsUpTo(max_outcomes - k)} :
                  k \in 1..(max_outcomes - 1)} :
           names \in {ns \in TestNames \X TestNames : ns[1] # ns[2]}}

TestResultMaps(max_outcomes) ==
    {<<>>} \cup OneTestMaps(max_outcomes) \cup TwoTestMaps(max_outcomes)

\* what ./downloaded-artifacts and the artifacts root can hold for one version
ComparePrimaryFiles ==
    {Absent, TextFile(<<LN_PASS_SAME>>), TextFile(<<LN_PASS_SAME, LN_FAIL_SAME>>),
     TextFile(<<LN_NAME, LN_ERROR>>), TextFile(<<LN_PASSED>>)}

CompareEntries ==
    {DirEntry(p, Absent) : p \in ComparePrimaryFiles}
        \cup {DirEntry(Absent, TextFile(<<LN_FAIL_SAME>>))}

CompareEntryMaps ==
    UNION {[vs -> CompareEntries] :
              vs \in {x \in SUBSET CompareVersions : Cardinality(x) <= MaxEnvs}}

\* the sorted results process_artifacts returns for the directories of e
ResultsOf(e) ==
    LET vs == SortedVersions(DOMAIN e)
    IN  [i \in 1..Len(vs) |->
            MakeResult(vs[i], parse_pytest_log(e[vs[i]].primary, e[vs[i]].raw))]

AnalyzerEnvironments == {"cloud", "previous"}

AnalyzerStatuses == {S_PASSED, S_FAILED, <<"S", "K", "I", "P", "P", "E", "D">>}

MaxTestResults == 2

\* the lists of at most MaxTestResults TestResult of the analyzer
ShortRuns ==
    UNION {[1..n -> [test_name : TestNames, environment : AnalyzerEnvironments,
                     status : AnalyzerStatuses]] : n \in 0..MaxTestResults}

\* one result of one test in each of the six environments: the same status
\* everywhere, or PASSED everywhere but in one environment
FullRuns ==
    {[i \in 1..Len(EnvironmentOrder) |->
         [test_name |-> NameOnlyTest(LN_NAME), environment |-> EnvironmentOrder[i],
          status |-> IF i = k THEN s ELSE S_PASSED]] :
        k \in 1..Len(EnvironmentOrder), s \in AnalyzerStatuses \cup {S_ERROR}}
      \cup {[i \in 1..Len(EnvironmentOrder) |->
                [test_name |-> NameOnlyTest(LN_NAME), environment |-> EnvironmentOrder[i],
                 status |-> s]] : s \in AnalyzerStatuses}

AnalyzerResults == ShortRuns \cup FullRuns

\* the test suite/apps/a::t<i>
NumberedTest(i) ==
    S_SUITE_APPS \o <<"a", ":", ":", "t", CHOOSE c \in Digits : DigitVal[c] = i>>

MaxManyTests == 6

\* what one test of a long run can report: a HIGH and a MEDIUM regression, an
\* improvement, a test that differs on both sides, a test that passes everywhere
OutcomePatterns ==
    {<<<<"cloud", S_PASSED>>, <<"next_a", S_FAILED>>>>,
     <<<<"cloud", S_PASSED>>, <<"next_a", S_ERROR>>, <<"next_b", S_PASSED>>>>,
     <<<<"cloud", S_FAILED>>, <<"next_a", S_PASSED>>>>,
     <<<<"cloud", S_PASSED>>, <<"next_a", S_FAILED>>, <<"next_b", S_PASSED>>,
       <<"previous", S_FAILED>>>>,
     <<<<"cloud", S_PASSED>>, <<"next_a", S_PASSED>>>>}

\* the mappings of n tests with the same outcomes, met in the order of their
\* numbers or in the opposite order
ManyTestMaps(max_tests) ==
    UNION {{[i \in 1..n |-> <<NumberedTest(i), m>>],
            [i \in 1..n |-> <<NumberedTest(n + 1 - i), m>>]} :
              n \in 1..max_tests, m \in OutcomePatterns}

\* a mapping built by hand, given to the two comparisons
InitMapping ==
    /\ all_versions = CompareVersionOrder
    /\ test_results \in TestResultMaps(MaxOutcomes) \cup ManyTestMaps(MaxManyTests)
    /\ results = <<>>
    /\ downloaded = <<>>
    /\ AnalyzerIdle
    /\ cpc = "find"

\* the results of a run, given to extract_individual_test_results first
InitExtract ==
    /\ \E e \in CompareEntryMaps :
          /\ results = ResultsOf(e)
          /\ downloaded \in {e, <<>>}
    /\ all_versions = VersionsOf(results)
    /\ test_results = <<>>
    /\ AnalyzerIdle
    /\ cpc = "extract"

\* the test results of TestResultsAnalyzer, given to analyze_test_differences
InitAnalyzer ==
    /\ AnalyzerIdle
    /\ results = <<>>
    /\ downloaded = <<>>
    /\ all_versions = <<>>
    /\ test_results = <<>>
    /\ cpc = "load"

InitCompare ==
    /\ (InitMapping \/ InitExtract \/ InitAnalyzer)
    /\ version_results = <<>>
    /\ inconsistent_tests = <<>>
    /\ regression_analysis = NoAnalysis
    /\ StripIdle
    /\ ParseIdle
    /\ MainParked

\* line 702
ExtractIndividualTestResults ==
    /\ cpc = "extract"
    /\ LET extracted == extract_individual_test_results(results, downloaded)
       IN  /\ test_results' = extracted.test_results
           /\ version_results' = extracted.version_results
    /\ cpc' = "find"
    /\ UNCHANGED <<downloaded, all_versions, inconsistent_tests, regression_analysis,
                   self_test_results, test_by_name, analyzer_inconsistent, analyze_result,
                   strip_vars, parse_vars, main_vars>>

\* line 703
FindInconsistentTests ==
    /\ cpc = "find"
    /\ inconsistent_tests' = find_inconsistent_tests(test_results, all_versions)
    /\ cpc' = "analyze"
    /\ UNCHANGED <<downloaded, all_versions, test_results, version_results,
                   regression_analysis, self_test_results, test_by_name,
                   analyzer_inconsistent, analyze_result, strip_vars, parse_vars, main_vars>>

\* line 707
AnalyzeRegressions ==
    /\ cpc = "analyze"
    /\ regression_analysis' = analyze_regressions(test_results, all_versions)
    /\ cpc' = "done"
    /\ UNCHANGED <<downloaded, all_versions, test_results, version_results,
                   inconsistent_tests, self_test_results, test_by_name,
                   analyzer_inconsistent, analyze_result, strip_vars, parse_vars, main_vars>>

\* analyze_test_results.py lines 120-143: load_test_results gives the results
\* of the output files, leaves with sys.exit(1) if the directory test-results
\* is missing, or lets the exception of a file that cannot be read through
LoadTestResults ==
    /\ cpc = "load"
    /\ \/ /\ self_test_results' \in AnalyzerResults
          /\ cpc' = "group"
          /\ analyze_result' = analyze_result
       \/ /\ analyze_result' \in {"SystemExit", "Exception"}
          /\ cpc' = "main"
          /\ self_test_results' = self_test_results
    /\ UNCHANGED <<downloaded, all_versions, test_results, version_results,
                   inconsistent_tests, regression_analysis, test_by_name,
                   analyzer_inconsistent, strip_vars, parse_vars, main_vars>>

\* analyze_test_results.py lines 208-220
AnalyzeTestDifferences ==
    /\ cpc = "group"
    /\ test_by_name' = GroupByName(self_test_results)
    /\ analyzer_inconsistent' = DifferingTests(test_by_name')
    /\ cpc' = "grouped"
    /\ UNCHANGED <<downloaded, all_versions, test_results, version_results,
                   inconsistent_tests, regression_analysis, self_test_results,
                   analyze_result,
                   strip_vars, parse_vars, main_vars>>

\* lines 709-787 and 836-847: the comparison is written to the step summary
\* and printed
RenderComparison ==
    /\ cpc = "done"
    /\ summary_file' =
           Append(summary_file, ComparisonSummary(regression_analysis, inconsistent_tests))
    /\ console' = Append(console, ComparisonConsole(inconsistent_tests))
    /\ cpc' = "rendered"
    /\ UNCHANGED <<root_exists, entries, step_summary, pc, todo, results, processed,
                   exit_code, downloaded, all_versions, test_results, version_results,
                   inconsistent_tests, regression_analysis, self_test_results,
                   test_by_name, analyzer_inconsistent, analyze_result, strip_vars, parse_vars>>

\* analyze_test_results.py lines 274-284: status_ok and differences_ok
AnalyzeReturn ==
    /\ cpc = "grouped"
    /\ analyze_result' = IF StatusOk(self_test_results) /\ DifferencesOk(analyzer_inconsistent)
                   THEN "True" ELSE "False"
    /\ cpc' = "main"
    /\ UNCHANGED <<downloaded, all_versions, test_results, version_results,
                   inconsistent_tests, regression_analysis, self_test_results,
                   test_by_name, analyzer_inconsistent, strip_vars, parse_vars, main_vars>>

\* analyze_test_results.py lines 296-306: the exit status of the script
AnalyzerMain ==
    /\ cpc = "main"
    /\ exit_code' = AnalyzerExitCode(analyze_result)
    /\ cpc' = "exited"
    /\ UNCHANGED <<root_exists, entries, step_summary, pc, todo, results, processed,
                   summary_file, console, downloaded, all_versions, test_results,
                   version_results, inconsistent_tests, regression_analysis,
                   self_test_results, test_by_name, analyzer_inconsistent, analyze_result,
                   strip_vars, parse_vars>>

NextCompare ==
    \/ LoadTestResults
    \/ AnalyzeReturn
    \/ AnalyzerMain
    \/ ExtractIndividualTestResults
    \/ FindInconsistentTests
    \/ AnalyzeRegressions
    \/ RenderComparison
    \/ AnalyzeTestDifferences

SpecCompare == InitCompare /\ [][NextCompare]_vars

(***************************************************************************)
(* Properties                                                              *)
(***************************************************************************)
Chars(t) == {t[i] : i \in 1..Len(t)}

\* parse_pytest_log returned the result of a log it read and parsed
Parsed == ppc = "return" /\ log_data.status \in {STATUS_PASS, STATUS_FAIL}

\* a delimiter line that names at least one aggregate count
NamesCounts(line) ==
    \/ CountBefore(line, S_SP_passed) >= 0
    \/ CountBefore(line, S_SP_failed) >= 0
    \/ CountBefore(line, S_SP_error) >= 0

CountsLine(line) ==
    /\ startswith(strip(line), S_EQ2)
    /\ endswith(strip(line), S_EQ3)
    /\ NamesCounts(line)

HasCountsLine == \E i \in 1..Len(lines) : CountsLine(lines[i])

FirstCountsLine ==
    lines[CHOOSE i \in 1..Len(lines) :
             CountsLine(lines[i]) /\ \A k \in 1..(i - 1) : ~CountsLine(lines[k])]

\* the count a line gives to a category, 0 when the line does not name it
CountOn(line, word) == IF CountBefore(line, word) < 0 THEN 0 ELSE CountBefore(line, word)

\* C1: stripping is a fixed point, strip(strip(x)) = strip(x), for the
\* aggregator's strip_ansi_codes and for the one of strip_ansi.py: once a text
\* went through one pass, a further pass leaves it as it is.
C1_StripFixedPoint ==
    [][/\ agg_passes >= 1 => agg_text' = agg_text
       /\ sa_passes >= 1 => sa_text' = sa_text]_vars

\* a text without terminal escape sequence: it has no ESC character, and each
\* of its "[" opens a bracketed parameter of letters, as in name[param]
CleanText(t) ==
    /\ ESC \notin Chars(t)
    /\ \A i \in 1..Len(t) :
          t[i] = "[" => LET j == RunEnd(t, i + 1, Letters)
                        IN  j > i + 1 /\ j <= Len(t) /\ t[j] = "]"

\* C2: stripping a text that holds no terminal escape sequence (in particular
\* an identifier with a bracketed parameter such as name[param]) returns the
\* text unchanged, for both strip_ansi_codes.
C2_CleanTextUnchanged ==
    CleanText(text_in) =>
        /\ agg_passes >= 1 => agg_text = text_in
        /\ sa_passes >= 1 => sa_text = text_in

\* C3: whenever the log holds a summary line with aggregate counts, the
\* passed, failed and errors counts returned are the counts of that line (0
\* for a category the line does not name), whatever the per-test tally is.
C3_SummaryAuthoritative ==
    (Parsed /\ HasCountsLine) =>
        /\ log_data.passed = CountOn(FirstCountsLine, S_SP_passed)
        /\ log_data.failed = CountOn(FirstCountsLine, S_SP_failed)
        /\ log_data.errors = CountOn(FirstCountsLine, S_SP_error)

\* C4: the log of 3 PASSED, 2 FAILED, 1 ERROR result lines with the summary line
\* "2 failed, 3 passed, 1 error in 12.34s" gives passed=3, failed=2, errors=1,
\* time="12.34s" and FAIL; and whenever the per-test tally agrees with the
\* counts of the summary line, the counts returned equal both and time is the
\* elapsed time of the summary line.
C4_CountReconciliation ==
    Parsed =>
        /\ primary_file = TextFile(ReconciliationLog) =>
              /\ log_data.passed = 3 /\ log_data.failed = 2 /\ log_data.errors = 1
              /\ log_data.time = S_TIME_RECON
              /\ log_data.status = STATUS_FAIL
        /\ ( /\ HasCountsLine
             /\ loop.passed = CountOn(FirstCountsLine, S_SP_passed)
             /\ loop.failed = CountOn(FirstCountsLine, S_SP_failed)
             /\ loop.errors = CountOn(FirstCountsLine, S_SP_error) ) =>
              /\ log_data.passed = loop.passed
              /\ log_data.failed = loop.failed
              /\ log_data.errors = loop.errors
              /\ TimeMatch(FirstCountsLine) # None
                    => log_data.time = TimeMatch(FirstCountsLine)

\* C5: for a log that was found and parsed, the status returned is FAIL
\* exactly when the returned failed + errors is greater than 0, and PASS
\* otherwise.
C5_StatusFromCounts ==
    Parsed => (log_data.status = STATUS_FAIL <=> log_data.failed + log_data.errors > 0)

\* C6: parse_pytest_log returns the NO_LOG sentinel, without raising, exactly
\* when neither pytest-output.log nor pytest-output-raw.log exists; when the
\* primary file exists it is the one parsed, and the raw file is parsed only
\* when the primary is absent.
C6_NoLogSentinel ==
    ppc = "return" =>
        /\ ~raised
        /\ log_data = NoLogResult <=> (~exists(primary_file) /\ ~exists(raw_file))
        /\ exists(primary_file) =>
              actual_log_file = "primary" /\ log_data = ParseFile(primary_file)
        /\ (~exists(primary_file) /\ exists(raw_file)) =>
              actual_log_file = "raw" /\ log_data = ParseFile(raw_file)

C6_Witness ==
    /\ ppc = "return"
    /\ ~exists(primary_file) /\ ~exists(raw_file)
    /\ log_data = NoLogResult

\* C7: parse_pytest_log never lets an exception reach its caller: whatever the
\* files are (missing, unreadable, undecodable, any content) it returns a
\* result, and when the file exists but cannot be read the result has the
\* ERROR status and zero counts.
C7_NeverRaises ==
    ppc = "return" =>
        /\ ~raised
        /\ log_data.status \in {STATUS_PASS, STATUS_FAIL, STATUS_NO_LOG, STATUS_ERROR}
        /\ (actual_log_file # "none" /\ FoundFile.kind # "text") =>
              /\ log_data.status = STATUS_ERROR
              /\ log_data.passed = 0 /\ log_data.failed = 0 /\ log_data.errors = 0

C7_Witness ==
    /\ ppc = "return"
    /\ primary_file = Undecodable
    /\ log_data.status = STATUS_ERROR

\* the artifact directories under the root
ArtifactDirs == {v \in DOMAIN entries : entries[v].isdir}

\* process_artifacts has returned
Processed == pc \in {"summary", "console"} \/ (pc = "exited" /\ root_exists)

\* C8: process_artifacts returns exactly one result per artifact directory; a
\* missing or malformed log of one environment neither ends the run nor changes
\* the result of another environment: each result is the one of its own files.
C8_OneResultPerDirectory ==
    Processed =>
        /\ Len(results) = Cardinality(ArtifactDirs)
        /\ \A v \in ArtifactDirs :
              \E i \in 1..Len(results) :
                  /\ results[i].version = v
                  /\ \A k \in 1..Len(results) : results[k].version = v => k = i
                  /\ results[i] = MakeResult(v, parse_pytest_log(entries[v].primary,
                                                                 entries[v].raw))

C8_Witness ==
    /\ pc = "exited"
    /\ Len(results) = 2
    /\ results[1].status = STATUS_NO_LOG
    /\ results[2].status = STATUS_FAIL
    /\ results[2].failed = 1

\* C9: when at least one artifact directory is found, the process exits 0 if
\* the failed counts and the errors counts summed over all environments are
\* both zero, and exits 1 otherwise.
C9_ExitCode ==
    (pc = "exited" /\ ArtifactDirs # {}) =>
        exit_code = IF Total(results, "failed") = 0 /\ Total(results, "errors") = 0
                    THEN 0 ELSE 1

C9_Witness ==
    /\ pc = "exited"
    /\ Len(results) = 2
    /\ Total(results, "failed") = 0
    /\ Total(results, "errors") > 0
    /\ exit_code = 1

\* C10: a missing artifacts root ends the process with a non-zero status at
\* once, before any artifact is processed or any report written; a root that
\* holds no artifact directory ends it with status 0 and a warning, and no
\* report is written.
C10_MissingRootAndNoArtifacts ==
    /\ ~root_exists =>
          /\ processed = 0 /\ results = <<>> /\ summary_file = <<>>
          /\ pc \in {"start", "exited"}
          /\ pc = "exited" => exit_code # 0
    /\ (pc = "exited" /\ root_exists /\ ArtifactDirs = {}) =>
          /\ exit_code = 0
          /\ console = <<"Warning: No sanity test artifacts found">>
          /\ summary_file = <<>>

C10_Witness ==
    /\ pc = "exited"
    /\ ~root_exists
    /\ step_summary
    /\ exit_code = 1

(***************************************************************************)
(* The comparison across versions                                          *)
(***************************************************************************)
\* the two comparisons have returned
Compared == cpc = "done"

\* the distinct status values of a dict {version: status}
StatusSet(m) == {m[i][2] : i \in 1..Len(m)}

\* the names of the entries of a list of dicts with a test_name
NamesIn(list) == {list[i].test_name : i \in 1..Len(list)}

\* the entries a list holds for one test
EntriesOf(list, name) == {list[i] : i \in {j \in 1..Len(list) : list[j].test_name = name}}

\* the versions of the dict m whose status is in wanted
VersionsIn(m, wanted) == {v \in DictKeys(m) : DictGet(m, v) \in wanted}

StableVersions == {"cloud", "previous"}

NextVersions == {"next_a", "next_b"}

PassesOn(m, vs) == VersionsIn(m, {S_PASSED}) \cap vs

FailsOn(m, vs) == VersionsIn(m, {S_FAILED, S_ERROR}) \cap vs

\* the elements of a list, which has no element twice
AsSet(list) == {list[i] : i \in 1..Len(list)}

NoDuplicates(list) == Cardinality(AsSet(list)) = Len(list)

\* C11: a test is flagged inconsistent exactly when the set of distinct status
\* values over the environments it appears in has more than one element, by
\* find_inconsistent_tests and by analyze_test_differences alike
C11_InconsistentIffDistinctStatuses ==
    /\ Compared =>
          \A k \in 1..Len(test_results) :
              (test_results[k][1] \in NamesIn(inconsistent_tests))
                  <=> Cardinality(StatusSet(test_results[k][2])) > 1
    /\ cpc = "grouped" =>
          \A k \in 1..Len(test_by_name) :
              (test_by_name[k][1] \in {analyzer_inconsistent[i][1] :
                                          i \in 1..Len(analyzer_inconsistent)})
                  <=> Cardinality({test_by_name[k][2][i][2].status :
                                      i \in 1..Len(test_by_name[k][2])}) > 1

\* a test seen on three versions with two distinct statuses is flagged
C11_Witness ==
    /\ Compared
    /\ \E k \in 1..Len(test_results) :
          /\ Len(test_results[k][2]) = 3
          /\ Cardinality(StatusSet(test_results[k][2])) = 2
          /\ test_results[k][1] \in NamesIn(inconsistent_tests)

\* C12: for every test flagged inconsistent, passed_versions is exactly the set
\* of environments that reported PASSED and failed_versions exactly those that
\* reported FAILED or ERROR; the two lists are disjoint and together cover every
\* environment the test appears in
C12_PassedAndFailedVersions ==
    Compared =>
        \A i \in 1..Len(inconsistent_tests) :
            LET e == inconsistent_tests[i]
                m == DictGet(test_results, e.test_name)
            IN  /\ NoDuplicates(e.passed_versions) /\ NoDuplicates(e.failed_versions)
                /\ AsSet(e.passed_versions) = VersionsIn(m, {S_PASSED})
                /\ AsSet(e.failed_versions) = VersionsIn(m, {S_FAILED, S_ERROR})
                /\ AsSet(e.passed_versions) \cap AsSet(e.failed_versions) = {}
                /\ AsSet(e.passed_versions) \cup AsSet(e.failed_versions) = DictKeys(m)

\* PASSED on one environment and ERROR on another: one version in each list
C12_Witness ==
    /\ Compared
    /\ \E i \in 1..Len(inconsistent_tests) :
          /\ inconsistent_tests[i].all_results = <<<<"cloud", S_PASSED>>, <<"previous", S_ERROR>>>>
          /\ inconsistent_tests[i].passed_versions = <<"cloud">>
          /\ inconsistent_tests[i].failed_versions = <<"previous">>

\* C13: a test is listed as a regression exactly when it is PASSED on at least
\* one stable environment and FAILED or ERROR on at least one next environment
C13_RegressionIff ==
    Compared =>
        \A k \in 1..Len(test_results) :
            (test_results[k][1] \in NamesIn(regression_analysis.regressions))
                <=> /\ PassesOn(test_results[k][2], StableVersions) # {}
                    /\ FailsOn(test_results[k][2], NextVersions) # {}

\* a regression that fails on one of two stable environments
C13_Witness ==
    /\ Compared
    /\ \E k \in 1..Len(test_results) :
          /\ test_results[k][1] \in NamesIn(regression_analysis.regressions)
          /\ PassesOn(test_results[k][2], StableVersions) # {}
          /\ FailsOn(test_results[k][2], StableVersions) # {}

\* the mapping of the example: one test with the given statuses
ExampleMapping(m) == Len(test_results) = 1 /\ test_results[1][2] = m

\* C14: a regression has severity HIGH if the test fails on all next
\* environments it has data for and MEDIUM otherwise; cloud PASSED with next_a
\* and next_b FAILED is HIGH, and with one of them PASSED it is MEDIUM
C14_Severity ==
    Compared =>
        /\ \A i \in 1..Len(regression_analysis.regressions) :
              LET r == regression_analysis.regressions[i]
                  m == DictGet(test_results, r.test_name)
              IN  r.severity = IF PassesOn(m, NextVersions) = {} THEN "HIGH" ELSE "MEDIUM"
        /\ ExampleMapping(<<<<"cloud", S_PASSED>>, <<"next_a", S_FAILED>>,
                            <<"next_b", S_FAILED>>>>)
              => /\ Len(regression_analysis.regressions) = 1
                 /\ regression_analysis.regressions[1].severity = "HIGH"
        /\ (\/ ExampleMapping(<<<<"cloud", S_PASSED>>, <<"next_a", S_PASSED>>,
                                <<"next_b", S_FAILED>>>>)
            \/ ExampleMapping(<<<<"cloud", S_PASSED>>, <<"next_a", S_FAILED>>,
                                <<"next_b", S_PASSED>>>>))
              => /\ Len(regression_analysis.regressions) = 1
                 /\ regression_analysis.regressions[1].severity = "MEDIUM"

\* the example after one next environment is changed to PASSED
C14_Witness ==
    /\ Compared
    /\ ExampleMapping(<<<<"cloud", S_PASSED>>, <<"next_a", S_FAILED>>, <<"next_b", S_PASSED>>>>)
    /\ regression_analysis.regressions[1].severity = "MEDIUM"

C16_ImprovementIff ==
    Compared =>
        \A k \in 1..Len(test_results) :
            (test_results[k][1] \in NamesIn(regression_analysis.improvements))
                <=> /\ FailsOn(test_results[k][2], StableVersions) # {}
                    /\ PassesOn(test_results[k][2], NextVersions) # {}

\* an improvement that still fails on one of two next environments
C16_Witness ==
    /\ Compared
    /\ \E k \in 1..Len(test_results) :
          /\ test_results[k][1] \in NamesIn(regression_analysis.improvements)
          /\ PassesOn(test_results[k][2], NextVersions) # {}
          /\ FailsOn(test_results[k][2], NextVersions) # {}

\* the list without the version v
WithoutVersion(list, v) ==
    LET other(x) == x # v
    IN  SelectSeq(list, other)

\* C17: an environment a test is absent from is no data for that test: it is in
\* neither passed_versions nor failed_versions, in neither stable_results nor
\* next_results, and what the two comparisons say of the test is what they say
\* when that environment is not among the versions at all
C17_AbsentIsNoData ==
    Compared =>
        \A k \in 1..Len(test_results) :
            \A v \in AsSet(all_versions) \ DictKeys(test_results[k][2]) :
                LET name == test_results[k][1]
                    alone == <<test_results[k]>>
                    analysis == analyze_regressions(alone, WithoutVersion(all_versions, v))
                IN  /\ \A e \in EntriesOf(inconsistent_tests, name) :
                          v \notin AsSet(e.passed_versions) \cup AsSet(e.failed_versions)
                    /\ \A e \in EntriesOf(regression_analysis.regressions, name)
                                   \cup EntriesOf(regression_analysis.improvements, name)
                                   \cup EntriesOf(regression_analysis.new_failures, name) :
                          v \notin DictKeys(e.stable_results) \cup DictKeys(e.next_results)
                    /\ EntriesOf(inconsistent_tests, name)
                          = AsSet(find_inconsistent_tests(alone, WithoutVersion(all_versions, v)))
                    /\ EntriesOf(regression_analysis.regressions, name)
                          = AsSet(analysis.regressions)
                    /\ EntriesOf(regression_analysis.improvements, name)
                          = AsSet(analysis.improvements)
                    /\ EntriesOf(regression_analysis.new_failures, name)
                          = AsSet(analysis.new_failures)
                    /\ (Cardinality(StatusSet(test_results[k][2])) = 1
                            => name \notin NamesIn(inconsistent_tests))

\* a test absent from one stable environment of the run is still a new failure
\* and a HIGH regression
C17_Witness ==
    /\ Compared
    /\ \E k \in 1..Len(test_results) :
          /\ AsSet(all_versions) \ DictKeys(test_results[k][2]) = {"previous"}
          /\ test_results[k][1] \in NamesIn(regression_analysis.new_failures)
          /\ \E e \in EntriesOf(regression_analysis.regressions, test_results[k][1]) :
                e.severity = "HIGH"

(***************************************************************************)
(* The mapping built from the logs                                         *)
(***************************************************************************)
\* extract_individual_test_results has returned
Extracted == cpc \in {"find", "analyze", "done"} /\ results # <<>>

\* the (test, status) pairs the line-by-line parsing of parse_pytest_log records
\* for the log that the extraction reads for the result r
ParsedOutcomes(r) ==
    LET log_file == DownloadedLog(downloaded, r.version)
    IN  IF r.log_exists /\ log_file.kind = "text"
        THEN ParseLines(StripFallback(log_file.lines), 1, LoopInit).individual_results
        ELSE <<>>

\* the versions of the results with a parsed outcome for the test
VersionsWithOutcome(name) ==
    {results[i].version :
        i \in {j \in 1..Len(results) :
                  \E n \in 1..Len(ParsedOutcomes(results[j])) :
                      ParsedOutcomes(results[j])[n][1] = name}}

\* C18: the mapping holds every test identifier with a parsed outcome in at
\* least one environment, under each environment that has one, also when that
\* is a single environment
C18_EveryParsedTestIsMapped ==
    Extracted =>
        \A i \in 1..Len(results) :
            \A n \in 1..Len(ParsedOutcomes(results[i])) :
                LET name == ParsedOutcomes(results[i])[n][1]
                IN  /\ name \in DictKeys(test_results)
                    /\ DictKeys(DictGet(test_results, name)) = VersionsWithOutcome(name)

\* two environments have parsed outcomes and a test has one in only one of them
C18_Witness ==
    /\ Extracted
    /\ \E k \in 1..Len(test_results) :
          /\ Len(test_results[k][2]) = 1
          /\ VersionsWithOutcome(test_results[k][1]) = {test_results[k][2][1][1]}
          /\ \E i \in 1..Len(results) :
                /\ results[i].version # test_results[k][2][1][1]
                /\ ParsedOutcomes(results[i]) # <<>>

\* the status of the last pair of the list for the test
LastStatus(pairs, name) ==
    pairs[CHOOSE n \in 1..Len(pairs) :
             /\ pairs[n][1] = name
             /\ \A later \in (n + 1)..Len(pairs) : pairs[later][1] # name][2]

\* the last TestResult of the analyzer for the test and the environment
LastResult(name, env) ==
    self_test_results[CHOOSE n \in 1..Len(self_test_results) :
        /\ self_test_results[n].test_name = name
        /\ self_test_results[n].environment = env
        /\ \A later \in (n + 1)..Len(self_test_results) :
              ~(self_test_results[later].test_name = name
                    /\ self_test_results[later].environment = env)]

\* C19: the outcomes of one environment hold at most one status per test
\* identifier, the status of the last result parsed for it in the log, in the
\* mapping of the aggregator and in the grouping of the analyzer
C19_LastWriteWins ==
    /\ Extracted =>
          /\ NoDuplicates(KeyList(test_results))
          /\ \A k \in 1..Len(test_results) : NoDuplicates(KeyList(test_results[k][2]))
          /\ \A i \in 1..Len(results) :
                \A n \in 1..Len(ParsedOutcomes(results[i])) :
                    LET name == ParsedOutcomes(results[i])[n][1]
                    IN  DictGet(DictGet(test_results, name), results[i].version)
                            = LastStatus(ParsedOutcomes(results[i]), name)
    /\ cpc = "grouped" =>
          /\ NoDuplicates(KeyList(test_by_name))
          /\ \A k \in 1..Len(test_by_name) : NoDuplicates(KeyList(test_by_name[k][2]))
          /\ \A n \in 1..Len(self_test_results) :
                DictGet(DictGet(test_by_name, self_test_results[n].test_name),
                        self_test_results[n].environment)
                    = LastResult(self_test_results[n].test_name,
                                 self_test_results[n].environment)

\* a log gives one test PASSED and later FAILED: the mapping says FAILED
C19_Witness ==
    /\ Extracted
    /\ \E i \in 1..Len(results) :
          /\ ParsedOutcomes(results[i])
                = <<<<TestNameMatch(LN_PASS_SAME), S_PASSED>>,
                    <<TestNameMatch(LN_PASS_SAME), S_FAILED>>>>
          /\ DictGet(DictGet(test_results, TestNameMatch(LN_PASS_SAME)), results[i].version)
                = S_FAILED

(***************************************************************************)
(* The counts of the line-by-line parsing                                  *)
(***************************************************************************)
\* the counts returned are those of the loop, no summary line replaced them
IndividualCounts == Parsed /\ ~UseSummary(ParseSummary(lines))

\* the number of recorded per-test outcomes with the status
Recorded(status) ==
    Cardinality({n \in 1..Len(loop.individual_results) :
                    loop.individual_results[n][2] = status})

\* C20: when no summary line is used, the passed, failed and errors counts
\* returned equal the number of recorded per-test outcomes with status PASSED,
\* FAILED and ERROR
C20_CountsEqualRecordedOutcomes ==
    IndividualCounts =>
        /\ log_data.passed = Recorded(S_PASSED)
        /\ log_data.failed = Recorded(S_FAILED)
        /\ log_data.errors = Recorded(S_ERROR)

\* C20 (amended): when no summary line is used, each count returned is at least
\* the number of recorded outcomes with its status, the three counts add up to
\* the number of results found, recorded or not, and they equal the numbers of
\* recorded outcomes when every result found was recorded
C20_CountsCoverRecordedOutcomes ==
    IndividualCounts =>
        /\ log_data.passed >= Recorded(S_PASSED)
        /\ log_data.failed >= Recorded(S_FAILED)
        /\ log_data.errors >= Recorded(S_ERROR)
        /\ log_data.passed + log_data.failed + log_data.errors = loop.debug_results_found
        /\ Len(loop.individual_results) = loop.debug_results_found =>
              /\ log_data.passed = Recorded(S_PASSED)
              /\ log_data.failed = Recorded(S_FAILED)
              /\ log_data.errors = Recorded(S_ERROR)

\* a log with one recorded outcome and one result that has no pending test
C20_Witness ==
    /\ IndividualCounts
    /\ Len(loop.individual_results) = 1
    /\ loop.debug_results_found = 2
    /\ log_data.passed + log_data.failed + log_data.errors = 2

(***************************************************************************)
(* The rendering of the comparison                                         *)
(***************************************************************************)
\* the comparison of a mapping was written and printed
Rendered == cpc = "rendered"

\* the text written to the step summary, and the text printed
SummaryText == summary_file[Len(summary_file)]

ConsoleText == console[Len(console)]

\* the mappings that hold the tests of m in another insertion order
Reordered(m) ==
    {[i \in 1..Len(m) |-> m[f[i]]] : f \in Permutations(1..Len(m))}

\* C22: two inputs that hold the same test/environment/status data in different
\* insertion orders are rendered to the same text, in the step summary and on
\* the console, as they are when the tests are sorted by test identifier
\* before they are rendered
C22_OrderIndependentRendering ==
    Rendered =>
        \A other \in Reordered(test_results) :
            /\ ComparisonSummary(analyze_regressions(other, all_versions),
                                 find_inconsistent_tests(other, all_versions))
                  = SummaryText
            /\ ComparisonConsole(find_inconsistent_tests(other, all_versions))
                  = ConsoleText

\* the lines of a text that are of one of the kinds
LinesOf(text, kinds) ==
    LET wanted(line) == line[1] \in kinds
    IN  SelectSeq(text, wanted)

\* the regressions of a severity
OfSeverity(severity) ==
    LET wanted(r) == r.severity = severity
    IN  SelectSeq(regression_analysis.regressions, wanted)

\* the remainder line of a list of n entries shown up to cap, none if all are shown
RemainderOf(n, cap) == IF n > cap THEN <<<<"more", n - cap>>>> ELSE <<>>

Smaller(n, cap) == IF n < cap THEN n ELSE cap

\* C23: n inconsistent tests are rendered as min(n, cap) detailed entries and,
\* when n > cap, a count of the n - cap remaining tests, in the step summary
\* and on the console; every list that is truncated (the regressions of each
\* severity, the improvements, the inconsistent tests) is followed by the count
\* of its remaining entries
C23_TruncationCarriesRemainder ==
    Rendered =>
        /\ Len(LinesOf(SummaryText, {"issue"}))
              = Smaller(Len(inconsistent_tests), InconsistentCap)
        /\ Len(LinesOf(ConsoleText, {"issue"}))
              = Smaller(Len(inconsistent_tests), ConsoleCap)
        /\ LinesOf(ConsoleText, {"more"}) = RemainderOf(Len(inconsistent_tests), ConsoleCap)
        /\ LinesOf(SummaryText, {"more"})
              = RemainderOf(Len(OfSeverity("HIGH")), HighSeverityCap)
                  \o RemainderOf(Len(OfSeverity("MEDIUM")), MediumSeverityCap)
                  \o RemainderOf(Len(regression_analysis.improvements), ImprovementsCap)
                  \o RemainderOf(Len(inconsistent_tests), InconsistentCap)

(***************************************************************************)
(* The classes of the failing tests                                        *)
(***************************************************************************)
\* the environments on which some test of the mapping fails
EnvironmentsWithFailures ==
    UNION {FailsOn(test_results[i][2], CompareVersions) : i \in 1..Len(test_results)}

\* the class of a test that fails on k of n environments, the first rule that
\* applies of: universal, majority, partial, isolated
FailureBreadth(k, n) ==
    IF k = n THEN "universal"
    ELSE IF k >= 4 THEN "majority"
    ELSE IF k >= 2 THEN "partial"
    ELSE "isolated"

\* the entries about a test in the lists the comparison returns
ReportEntries(name) ==
    EntriesOf(inconsistent_tests, name) \cup EntriesOf(regression_analysis.regressions, name)
        \cup EntriesOf(regression_analysis.improvements, name)
        \cup EntriesOf(regression_analysis.new_failures, name)

\* C24: a test that fails on K of the N environments with failure data is
\* reported with its failure breadth: universal if K = N, majority if K >= 4,
\* partial if 2 <= K < N, isolated if K = 1
C24_FailureBreadth ==
    Compared =>
        \A i \in 1..Len(test_results) :
            LET k == Cardinality(FailsOn(test_results[i][2], CompareVersions))
                n == Cardinality(EnvironmentsWithFailures)
            IN  k >= 1 =>
                    \E e \in ReportEntries(test_results[i][1]) :
                        /\ "breadth" \in DOMAIN e
                        /\ e.breadth = FailureBreadth(k, n)

(***************************************************************************)
(* The pending test identifier of the two loops over the lines             *)
(***************************************************************************)
\* the test identifier a line gives, None if it gives none: a line that
\* starts with suite/apps/ and holds "::", with the name cut before a result
\* word that is on the same line
IdentifierOf(line) ==
    IF startswith(line, S_SUITE_APPS) /\ contains(line, S_COLONS)
    THEN IF SameLineWord(line) # None THEN TestNameMatch(line) ELSE NameOnlyTest(line)
    ELSE None

\* the line holds a result token
HasResult(line) ==
    IF startswith(line, S_SUITE_APPS) /\ contains(line, S_COLONS)
    THEN SameLineWord(line) # None
    ELSE ResultFound(line) # None

\* one iteration took the loop from the pending identifier and the outcomes
\* before to those after: at most one outcome is added, for the identifier of
\* the line or else for the pending one, which is then empty; no outcome is
\* added with no identifier; a line adds no outcome unless it holds a result
\* token; the pending identifier is replaced by the identifier of the line
PendingDiscipline(line, pending, outcomes, pending_after, outcomes_after) ==
    LET id == IdentifierOf(line)
        added == SubSeq(outcomes_after, Len(outcomes) + 1, Len(outcomes_after))
    IN  /\ Len(outcomes_after) >= Len(outcomes)
        /\ SubSeq(outcomes_after, 1, Len(outcomes)) = outcomes
        /\ Len(added) <= 1
        /\ added # <<>> =>
              /\ HasResult(line)
              /\ added[1][1] # None
              /\ added[1][1] = (IF id # None THEN id ELSE pending)
              /\ pending_after = None
        /\ (id = None /\ pending = None) => added = <<>>
        /\ added = <<>> => pending_after = (IF id # None THEN id ELSE pending)

\* the pending identifier is the one of the last line that gave an identifier,
\* and no line after that one holds a result token
PendingIsMostRecent ==
    loop.current_test # None =>
        \E j \in 1..(line_no - 1) :
            /\ IdentifierOf(strip(lines[j])) = loop.current_test
            /\ \A k \in (j + 1)..(line_no - 1) :
                  /\ IdentifierOf(strip(lines[k])) = None
                  /\ ResultFound(strip(lines[k])) = None

\* C25: the parsing keeps one pending test identifier, empty after each
\* consumed result: a result is attributed to the most recent line that gave
\* an identifier since the last consumed result, a line that gave an
\* identifier yields at most one outcome, and a result met with no pending
\* identifier adds no outcome; the loop of extract_individual_test_results
\* does the same from the same state
C25_PendingIdentifier ==
    [][(ppc = "lines" /\ line_no' = line_no + 1) =>
          LET line == strip(lines[line_no])
              extracted == ExtractLineStep([current_test |-> loop.current_test,
                                            version_results |-> loop.individual_results,
                                            test_results |-> <<>>],
                                           "cloud", lines[line_no])
          IN  /\ PendingIsMostRecent
              /\ PendingDiscipline(line, loop.current_test, loop.individual_results,
                                   loop'.current_test, loop'.individual_results)
              /\ PendingDiscipline(line, loop.current_test, loop.individual_results,
                                   extracted.current_test, extracted.version_results)]_vars

\* the result after the name was recorded and emptied the pending identifier;
\* the next result found no identifier and was not recorded
C25_Witness ==
    /\ ppc = "lines"
    /\ lines = PendingLog
    /\ line_no = 4
    /\ loop.current_test = None
    /\ loop.individual_results = <<<<NameOnlyTest(LN_NAME), S_PASSED>>>>
    /\ loop.errors = 1

(***************************************************************************)
(* The logs the comparison reads                                           *)
(***************************************************************************)
\* the log parse_pytest_log found under the artifacts root for the version
ProcessedLog(version) ==
    IF ActualLogFile(entries[version].primary, entries[version].raw) = "primary"
    THEN entries[version].primary
    ELSE entries[version].raw

\* C26: for every environment whose log process_artifacts found and parsed
\* under the artifacts root, extract_individual_test_results reads that same
\* log, and the mapping holds each test the log gives an outcome for with an
\* outcome for that environment, wherever the artifacts root is
C26_ComparisonCoversEveryRun ==
    (pc = "exited" /\ results # <<>>) =>
        \A i \in 1..Len(results) :
            (results[i].log_exists /\ results[i].status \in {STATUS_PASS, STATUS_FAIL}) =>
                LET log_file == ProcessedLog(results[i].version)
                    outcomes == ParseLines(StripFallback(log_file.lines), 1, LoopInit)
                                    .individual_results
                IN  /\ DownloadedLog(downloaded, results[i].version) = log_file
                    /\ \A n \in 1..Len(outcomes) :
                          /\ outcomes[n][1] \in DictKeys(test_results)
                          /\ results[i].version
                                \in DictKeys(DictGet(test_results, outcomes[n][1]))

(***************************************************************************)
(* The two passes over a log                                               *)
(***************************************************************************)
\* what the loop of extract_individual_test_results records for the content
\* that parse_pytest_log read
ExtractedFromLog ==
    ExtractLines(StripFallback(FoundFile.lines), 1, "cloud",
                 [current_test |-> None, version_results |-> <<>>, test_results |-> <<>>])

\* C27: for every log content, the list of (test identifier, status) pairs
\* that parse_pytest_log records in individual_results equals the list that
\* extract_individual_test_results records in version_results
C27_PassesAgree ==
    Parsed => loop.individual_results = ExtractedFromLog.version_results

\* a log with a test name and, on the next line, its result
C27_Witness ==
    /\ Parsed
    /\ FoundFile.lines = <<LN_NAME, LN_PASSED>>
    /\ ExtractedFromLog.version_results = <<<<NameOnlyTest(LN_NAME), S_PASSED>>>>

(***************************************************************************)
(* The three lists of analyze_regressions                                  *)
(***************************************************************************)
\* C28: every test listed in new_failures is listed in regressions with
\* severity HIGH
C28_NewFailuresAreHighRegressions ==
    Compared =>
        \A e \in AsSet(regression_analysis.new_failures) :
            \E r \in AsSet(regression_analysis.regressions) :
                r.test_name = e.test_name /\ r.severity = "HIGH"

\* a test that passes on cloud and previous and fails on a next version
C28_Witness ==
    /\ Compared
    /\ Len(regression_analysis.new_failures) = 1
    /\ Len(regression_analysis.new_failures[1].stable_results) = 2
    /\ Len(regression_analysis.regressions) = 1
    /\ regression_analysis.regressions[1].severity = "HIGH"

\* both a PASSED and a FAILED or ERROR outcome among the versions vs
MixedOn(m, vs) == PassesOn(m, vs) # {} /\ FailsOn(m, vs) # {}

\* C29: no test is listed both in regressions and in improvements
C29_RegressionOrImprovement ==
    Compared =>
        NamesIn(regression_analysis.regressions)
            \cap NamesIn(regression_analysis.improvements) = {}

\* C29 (amended): a test listed both in regressions and in improvements has
\* a PASSED and a FAILED or ERROR outcome on the stable versions and on the
\* next versions, and its regression is of severity MEDIUM; no other test is
\* in both lists
C29_BothOnlyWhenMixed ==
    Compared =>
        \A i \in 1..Len(test_results) :
            LET name == test_results[i][1]
                m == test_results[i][2]
                in_both == name \in NamesIn(regression_analysis.regressions)
                                      \cap NamesIn(regression_analysis.improvements)
            IN  /\ in_both <=> (MixedOn(m, StableVersions) /\ MixedOn(m, NextVersions))
                /\ in_both =>
                      \A r \in EntriesOf(regression_analysis.regressions, name) :
                          r.severity = "MEDIUM"

\* the test that passes on cloud and next_b and fails on previous and next_a
C29_Witness ==
    /\ Compared
    /\ \E i \in 1..Len(test_results) :
          /\ DictKeys(test_results[i][2]) = CompareVersions
          /\ test_results[i][1] \in NamesIn(regression_analysis.regressions)
          /\ test_results[i][1] \in NamesIn(regression_analysis.improvements)
          /\ \A r \in EntriesOf(regression_analysis.regressions, test_results[i][1]) :
                r.severity = "MEDIUM"

(***************************************************************************)
(* TestResultsAnalyzer.analyze and the exit status of its script           *)
(***************************************************************************)
\* the script of the analyzer has ended
AnalyzerExited == cpc = "exited"

NoFailures ==
    \A n \in 1..Len(self_test_results) :
        self_test_results[n].status \notin {S_FAILED, S_ERROR}

\* each of the six environments has a result
EveryEnvironmentReported ==
    \A i \in 1..Len(EnvironmentOrder) :
        \E n \in 1..Len(self_test_results) :
            self_test_results[n].environment = EnvironmentOrder[i]

\* the last result of each test has the same status in all its environments
SameStatusEverywhere ==
    \A n, k \in 1..Len(self_test_results) :
        self_test_results[n].test_name = self_test_results[k].test_name =>
            LastResult(self_test_results[n].test_name, self_test_results[n].environment)
                    .status
                = LastResult(self_test_results[k].test_name,
                             self_test_results[k].environment).status

====
